---------------------------- MODULE Spec2Model ----------------------------
(***************************************************************************)
(* A model of the Bitcraft inventory viewer (src/js/app.js): the devalue   *)
(* graph decoder, the item-normalisation pipeline of fetchPlayerInventory, *)
(* package expansion and the filtered / aggregated inventory view.         *)
(*                                                                         *)
(* JavaScript values are tagged records ([t |-> "number", ...]); strings   *)
(* whose characters the code inspects are sequences of one-character       *)
(* strings, so that startsWith / endsWith / includes / trim / parseInt are *)
(* computed character by character, as the code computes them.             *)
(***************************************************************************)
EXTENDS Integers, Sequences, FiniteSets, TLC

VARIABLES
    json,        \* decodeSvelteKitData: the document passed in
    data,        \* decodeSvelteKitData: dataNode.data (the slots)
    hydrated,    \* decodeSvelteKitData: the memo array, a partial map index -> value
    heap,        \* the arrays / objects hydrate has allocated, by the slot that made them
    stack,       \* the hydrate calls that are populating an array / object
    arg,         \* the index of the hydrate call about to run
    pc,          \* "start" | "call" | "done" | "thrown"
    result,      \* what decodeSvelteKitData returned
    dataReads,   \* every index at which hydrate read data[index], in order
    memoChecks,  \* every index at which hydrate evaluated `index in hydrated`, in order
    probe,       \* the raw record and pocket an inventory response carries
    itemDatabase,\* InventoryViewer.itemDatabase: entity id -> catalog entry
    fetched,     \* what fetchPlayerInventory returned for the probe
    players,     \* InventoryViewer.players: the map's entries in insertion order
    expandPackages, \* InventoryViewer.expandPackages
    filterTier,  \* filterTierSelect.value
    filterRarity,\* filterRaritySelect.value
    filterTag,   \* filterTagSelect.value
    search,      \* itemSearchInput.value
    groupBy,     \* groupBySelect.value
    pending,     \* the entity ids whose addPlayer call awaits its inventory
    loading,     \* whether the loading overlay is shown
    renderedAll,    \* what getAllItems gave the last render
    renderedFiltered,   \* what getFilteredItems gave the last render
    renderedAggregated, \* what aggregateItems gave the last render
    sortBySelect,    \* sortBySelect.value
    sortOrderSelect, \* sortOrderSelect.value
    inventoryContent,\* what renderInventory put into the inventory panel
    selectedPlayer,  \* PlayerMarketViewer.selectedPlayer
    sellOrders,      \* PlayerMarketViewer.sellOrders
    buyOrders,       \* PlayerMarketViewer.buyOrders
    cheapestCache,   \* PlayerMarketViewer.cheapestCache: item id -> [price, playerId]
    marketLoads,     \* the loadPlayerMarketData calls, in the order they were made
    cheapestRuns,    \* the calculateCheapestOrders calls, in the order they were made
    batches,         \* the loadPlayersFromUrl and refreshAll calls, in the order they were made
    marketItems,     \* MarketViewer.items
    selectedTags,    \* MarketViewer.selectedTags
    searchTerm,      \* MarketViewer.searchTerm
    sortOrder,       \* MarketViewer.sortOrder
    priceRuns,       \* the loadPricesForVisibleItems calls, in the order they were made
    priceRequests,   \* item id -> the number of price requests issued for it
    proxyRequest,    \* worker.js: the request handleRequest was called with
    proxyTarget,     \* worker.js: the URL handleRequest fetches, empty before it does
    proxyUpstream,   \* worker.js: how the upstream fetch ended
    proxyResponse    \* worker.js: what handleRequest returned

decodeVars == <<json, data, hydrated, heap, stack, arg, pc, result, dataReads, memoChecks>>

normalizeVars == <<probe, itemDatabase, fetched>>

viewerVars == <<players, expandPackages, filterTier, filterRarity, filterTag, search,
                groupBy, pending, loading, renderedAll, renderedFiltered, renderedAggregated,
                sortBySelect, sortOrderSelect, inventoryContent>>

playerMarketVars == <<selectedPlayer, sellOrders, buyOrders, cheapestCache, marketLoads,
                      cheapestRuns>>

proxyVars == <<proxyRequest, proxyTarget, proxyUpstream, proxyResponse>>

marketVars == <<marketItems, selectedTags, searchTerm, sortOrder, priceRuns, priceRequests>>

\* the state outside the inventory viewer
marketSideVars == <<playerMarketVars, marketVars, proxyVars>>

batchVars == <<batches>>

vars == <<decodeVars, normalizeVars, viewerVars, marketSideVars, batchVars>>

-----------------------------------------------------------------------------
(* JavaScript values *)

Undef == [t |-> "undefined"]
Null == [t |-> "null"]
Bool(b) == [t |-> "boolean", b |-> b]
\* k is "int" (the integer n), "frac" (n + 1/2), "NaN", "Infinity",
\* "-Infinity" or "-0"
NumK(k, n) == [t |-> "number", k |-> k, n |-> n]
Num(n) == NumK("int", n)
NaN == NumK("NaN", 0)
PosInfinity == NumK("Infinity", 0)
NegInfinity == NumK("-Infinity", 0)
NegZero == NumK("-0", 0)
Str(s) == [t |-> "string", s |-> s]
\* a reference to the array / object allocated for slot id
Ref(id) == [t |-> "ref", id |-> id]
PlainObject == [t |-> "object"]
\* an array whose elements are values
JArray(elems) == [t |-> "array", elems |-> elems]

\* JavaScript truthiness (the ! and && and || of the code)
Truthy(v) ==
    CASE v.t = "undefined" -> FALSE
      [] v.t = "null" -> FALSE
      [] v.t = "boolean" -> v.b
      [] v.t = "number" -> \/ v.k = "int" /\ v.n # 0
                           \/ v.k \in {"frac", "Infinity", "-Infinity"}
      [] v.t = "string" -> Len(v.s) > 0
      [] OTHER -> TRUE

-----------------------------------------------------------------------------
(* Strings: sequences of one-character strings *)
UpperChars ==
    <<"A", "B", "C", "D", "E", "F", "G", "H", "I", "J", "K", "L", "M", "N", "O", "P", "Q", "R", "S", "T", "U", "V", "W", "X", "Y", "Z">>
LowerChars ==
    <<"a", "b", "c", "d", "e", "f", "g", "h", "i", "j", "k", "l", "m", "n", "o", "p", "q", "r", "s", "t", "u", "v", "w", "x", "y", "z">>
DigitChars == <<"0", "1", "2", "3", "4", "5", "6", "7", "8", "9">>
WhiteSpace == {" ", "\t"}

\* s.startsWith(p)
StartsWith(s, p) == Len(s) >= Len(p) /\ SubSeq(s, 1, Len(p)) = p

\* s.endsWith(p)
EndsWith(s, p) == Len(s) >= Len(p) /\ SubSeq(s, Len(s) - Len(p) + 1, Len(s)) = p

\* s.includes(p)
Includes(s, p) == \E i \in 1..(Len(s) - Len(p) + 1) : SubSeq(s, i, i + Len(p) - 1) = p

\* s.trim()
RECURSIVE Trim(_)
Trim(s) ==
    IF s = <<>> THEN s
    ELSE IF s[1] \in WhiteSpace THEN Trim(Tail(s))
    ELSE IF s[Len(s)] \in WhiteSpace THEN Trim(SubSeq(s, 1, Len(s) - 1))
    ELSE s

ToLowerChar(c) ==
    IF \E i \in 1..Len(UpperChars) : UpperChars[i] = c
    THEN LowerChars[CHOOSE i \in 1..Len(UpperChars) : UpperChars[i] = c]
    ELSE c

\* s.toLowerCase()
ToLowerCase(s) == [i \in 1..Len(s) |-> ToLowerChar(s[i])]

IsDigit(c) == \E i \in 1..Len(DigitChars) : DigitChars[i] = c

DigitValue(c) == (CHOOSE i \in 1..Len(DigitChars) : DigitChars[i] = c) - 1

\* the value of a run of decimal digits
RECURSIVE DecimalValue(_)
DecimalValue(s) ==
    IF s = <<>> THEN 0
    ELSE 10 * DecimalValue(SubSeq(s, 1, Len(s) - 1)) + DigitValue(s[Len(s)])

\* /^\d+$/.test(s)
AllDigits(s) == Len(s) > 0 /\ \A i \in 1..Len(s) : IsDigit(s[i])

\* the longest run of digits of s that starts at position i
RECURSIVE DigitRun(_, _)
DigitRun(s, i) ==
    IF i <= Len(s) /\ IsDigit(s[i]) THEN <<s[i]>> \o DigitRun(s, i + 1) ELSE <<>>

\* where s.match(/-?\d+/) matches: the leftmost position at which a digit, or
\* a minus sign followed by a digit, stands; 0 when there is no match
MatchStart(s) ==
    LET at(i) == \/ IsDigit(s[i])
                 \/ s[i] = "-" /\ i < Len(s) /\ IsDigit(s[i + 1])
    IN  IF \E i \in 1..Len(s) : at(i)
        THEN CHOOSE i \in 1..Len(s) : at(i) /\ \A j \in 1..(i - 1) : ~at(j)
        ELSE 0

\* parseInt(s.match(/-?\d+/)[0]) for a string that matches
ParseMatchedInt(s) ==
    LET i == MatchStart(s)
    IN  IF s[i] = "-"
        THEN LET n == DecimalValue(DigitRun(s, i + 1))
             IN  IF n = 0 THEN NegZero ELSE Num(-n)
        ELSE Num(DecimalValue(DigitRun(s, i)))

-----------------------------------------------------------------------------
(* The tables of the code *)

\* lines 13-36
PACKAGE_CONTENTS ==
    <<[suffix |-> <<"F", "i", "l", "e", "t", " ", "P", "a", "c", "k", "a", "g", "e">>, quantity |-> 500],
      [suffix |-> <<"B", "r", "i", "c", "k", " ", "P", "a", "c", "k", "a", "g", "e">>, quantity |-> 100],
      [suffix |-> <<"C", "l", "a", "y", " ", "L", "u", "m", "p", " ", "P", "a", "c", "k", "a", "g", "e">>, quantity |-> 500],
      [suffix |-> <<"P", "l", "a", "n", "k", " ", "P", "a", "c", "k", "a", "g", "e">>, quantity |-> 100],
      [suffix |-> <<"C", "l", "o", "t", "h", " ", "P", "a", "c", "k", "a", "g", "e">>, quantity |-> 100],
      [suffix |-> <<"P", "e", "b", "b", "l", "e", "s", " ", "P", "a", "c", "k", "a", "g", "e">>, quantity |-> 1000],
      [suffix |-> <<"R", "a", "w", " ", "M", "e", "a", "t", " ", "P", "a", "c", "k", "a", "g", "e">>, quantity |-> 500],
      [suffix |-> <<"B", "a", "r", "k", " ", "P", "a", "c", "k", "a", "g", "e">>, quantity |-> 500],
      [suffix |-> <<"T", "a", "n", "n", "i", "n", " ", "P", "a", "c", "k", "a", "g", "e">>, quantity |-> 500],
      [suffix |-> <<"I", "n", "g", "o", "t", " ", "P", "a", "c", "k", "a", "g", "e">>, quantity |-> 100],
      [suffix |-> <<"F", "i", "b", "e", "r", " ", "P", "a", "c", "k", "a", "g", "e">>, quantity |-> 1000],
      [suffix |-> <<"L", "e", "a", "t", "h", "e", "r", " ", "P", "a", "c", "k", "a", "g", "e">>, quantity |-> 100],
      [suffix |-> <<"R", "a", "w", " ", "P", "e", "l", "t", " ", "P", "a", "c", "k", "a", "g", "e">>, quantity |-> 100],
      [suffix |-> <<"F", "i", "s", "h", " ", "O", "i", "l", " ", "P", "a", "c", "k", "a", "g", "e">>, quantity |-> 500],
      [suffix |-> <<"F", "l", "o", "w", "e", "r", " ", "P", "a", "c", "k", "a", "g", "e">>, quantity |-> 500],
      [suffix |-> <<"P", "i", "t", "c", "h", " ", "P", "a", "c", "k", "a", "g", "e">>, quantity |-> 500],
      [suffix |-> <<"R", "o", "p", "e", " ", "P", "a", "c", "k", "a", "g", "e">>, quantity |-> 100],
      [suffix |-> <<"V", "i", "a", "l", " ", "P", "a", "c", "k", "a", "g", "e">>, quantity |-> 100],
      [suffix |-> <<"P", "a", "r", "c", "h", "m", "e", "n", "t", " ", "P", "a", "c", "k", "a", "g", "e">>, quantity |-> 200],
      [suffix |-> <<"P", "i", "g", "m", "e", "n", "t", " ", "P", "a", "c", "k", "a", "g", "e">>, quantity |-> 200],
      [suffix |-> <<"I", "n", "k", " ", "P", "a", "c", "k", "a", "g", "e">>, quantity |-> 200],
      [suffix |-> <<"S", "t", "o", "n", "e", " ", "C", "a", "r", "v", "i", "n", "g", " ", "P", "a", "c", "k", "a", "g", "e">>, quantity |-> 100]>>

\* getBaseItemName: tierPrefixes, lines 509-515
baseItemTierPrefixes ==
    <<<<"R", "o", "u", "g", "h">>,
      <<"P", "r", "i", "m", "i", "t", "i", "v", "e">>,
      <<"B", "a", "s", "i", "c">>,
      <<"S", "i", "m", "p", "l", "e">>,
      <<"I", "m", "p", "r", "o", "v", "e", "d">>,
      <<"S", "t", "u", "r", "d", "y">>,
      <<"Q", "u", "a", "l", "i", "t", "y">>,
      <<"I", "n", "f", "u", "s", "e", "d">>,
      <<"F", "i", "n", "e">>,
      <<"E", "s", "s", "e", "n", "t", "i", "a", "l">>,
      <<"S", "u", "p", "e", "r", "i", "o", "r">>,
      <<"E", "x", "q", "u", "i", "s", "i", "t", "e">>,
      <<"S", "u", "c", "c", "u", "l", "e", "n", "t">>,
      <<"P", "e", "e", "r", "l", "e", "s", "s">>,
      <<"O", "r", "n", "a", "t", "e">>,
      <<"A", "m", "b", "r", "o", "s", "i", "a", "l">>,
      <<"F", "l", "a", "v", "o", "r", "f", "u", "l">>,
      <<"A", "u", "r", "u", "m", "i", "t", "e">>,
      <<"P", "r", "i", "s", "t", "i", "n", "e">>,
      <<"C", "e", "l", "e", "s", "t", "i", "u", "m">>,
      <<"L", "u", "m", "i", "n", "i", "t", "e">>,
      <<"R", "a", "t", "h", "i", "u", "m">>,
      <<"Z", "e", "s", "t", "y">>,
      <<"P", "l", "a", "i", "n">>,
      <<"N", "o", "v", "i", "c", "e">>>>

\* deriveTierFromName: tierPrefixes, lines 527-553
tierPrefixes ==
    <<[prefix |-> <<"R", "o", "u", "g", "h">>, tier |-> 0],
      [prefix |-> <<"P", "r", "i", "m", "i", "t", "i", "v", "e">>, tier |-> 0],
      [prefix |-> <<"B", "a", "s", "i", "c">>, tier |-> 1],
      [prefix |-> <<"S", "i", "m", "p", "l", "e">>, tier |-> 2],
      [prefix |-> <<"I", "m", "p", "r", "o", "v", "e", "d">>, tier |-> 2],
      [prefix |-> <<"S", "t", "u", "r", "d", "y">>, tier |-> 3],
      [prefix |-> <<"Q", "u", "a", "l", "i", "t", "y">>, tier |-> 3],
      [prefix |-> <<"I", "n", "f", "u", "s", "e", "d">>, tier |-> 3],
      [prefix |-> <<"F", "i", "n", "e">>, tier |-> 4],
      [prefix |-> <<"E", "s", "s", "e", "n", "t", "i", "a", "l">>, tier |-> 4],
      [prefix |-> <<"S", "u", "p", "e", "r", "i", "o", "r">>, tier |-> 5],
      [prefix |-> <<"E", "x", "q", "u", "i", "s", "i", "t", "e">>, tier |-> 5],
      [prefix |-> <<"S", "u", "c", "c", "u", "l", "e", "n", "t">>, tier |-> 5],
      [prefix |-> <<"P", "e", "e", "r", "l", "e", "s", "s">>, tier |-> 6],
      [prefix |-> <<"O", "r", "n", "a", "t", "e">>, tier |-> 7],
      [prefix |-> <<"A", "m", "b", "r", "o", "s", "i", "a", "l">>, tier |-> 6],
      [prefix |-> <<"F", "l", "a", "v", "o", "r", "f", "u", "l">>, tier |-> 7],
      [prefix |-> <<"A", "u", "r", "u", "m", "i", "t", "e">>, tier |-> 7],
      [prefix |-> <<"P", "r", "i", "s", "t", "i", "n", "e">>, tier |-> 8],
      [prefix |-> <<"C", "e", "l", "e", "s", "t", "i", "u", "m">>, tier |-> 8],
      [prefix |-> <<"L", "u", "m", "i", "n", "i", "t", "e">>, tier |-> 5],
      [prefix |-> <<"R", "a", "t", "h", "i", "u", "m">>, tier |-> 6],
      [prefix |-> <<"Z", "e", "s", "t", "y">>, tier |-> 3],
      [prefix |-> <<"P", "l", "a", "i", "n">>, tier |-> 0],
      [prefix |-> <<"N", "o", "v", "i", "c", "e">>, tier |-> 2]>>

\* shouldSkipItem: skipPrefixes, lines 597-608
skipPrefixes ==
    <<<<"P", "r", "o", "f", "e", "s", "s", "i", "o", "n", "a", "l">>,
      <<"C", "o", "l", "l", "e", "c", "t", "i", "b", "l", "e">>,
      <<"A", "d", "e", "p", "t">>,
      <<"A", "p", "p", "r", "e", "n", "t", "i", "c", "e">>,
      <<"N", "o", "v", "i", "c", "e">>,
      <<"E", "x", "p", "e", "r", "t">>,
      <<"M", "a", "s", "t", "e", "r">>,
      <<"G", "r", "a", "n", "d", "m", "a", "s", "t", "e", "r">>,
      <<"L", "e", "g", "e", "n", "d", "a", "r", "y">>,
      <<"M", "y", "t", "h", "i", "c", "a", "l">>>>

\* normalizeTier: tierMap, lines 634-646
tierMap ==
    <<[name |-> <<"P", "r", "i", "m", "i", "t", "i", "v", "e">>, num |-> 0],
      [name |-> <<"B", "a", "s", "i", "c">>, num |-> 1],
      [name |-> <<"I", "m", "p", "r", "o", "v", "e", "d">>, num |-> 2],
      [name |-> <<"Q", "u", "a", "l", "i", "t", "y">>, num |-> 3],
      [name |-> <<"F", "i", "n", "e">>, num |-> 4],
      [name |-> <<"S", "u", "p", "e", "r", "i", "o", "r">>, num |-> 5],
      [name |-> <<"O", "r", "n", "a", "t", "e">>, num |-> 6],
      [name |-> <<"A", "u", "r", "u", "m", "i", "t", "e">>, num |-> 7],
      [name |-> <<"C", "e", "l", "e", "s", "t", "i", "u", "m">>, num |-> 8],
      [name |-> <<"C", "u", "r", "r", "e", "n", "c", "y">>, num |-> -1],
      [name |-> <<"S", "p", "e", "c", "i", "a", "l">>, num |-> -1]>>

\* inferTagForBaseItem: tagMappings, lines 912-935
tagMappings ==
    <<[key |-> <<"f", "i", "l", "e", "t">>, tag |-> <<"F", "o", "o", "d">>],
      [key |-> <<"b", "r", "i", "c", "k">>, tag |-> <<"C", "o", "n", "s", "t", "r", "u", "c", "t", "i", "o", "n">>],
      [key |-> <<"c", "l", "a", "y", " ", "l", "u", "m", "p">>, tag |-> <<"C", "o", "n", "s", "t", "r", "u", "c", "t", "i", "o", "n">>],
      [key |-> <<"p", "l", "a", "n", "k">>, tag |-> <<"C", "o", "n", "s", "t", "r", "u", "c", "t", "i", "o", "n">>],
      [key |-> <<"c", "l", "o", "t", "h">>, tag |-> <<"T", "e", "x", "t", "i", "l", "e">>],
      [key |-> <<"p", "e", "b", "b", "l", "e", "s">>, tag |-> <<"C", "o", "n", "s", "t", "r", "u", "c", "t", "i", "o", "n">>],
      [key |-> <<"r", "a", "w", " ", "m", "e", "a", "t">>, tag |-> <<"F", "o", "o", "d">>],
      [key |-> <<"b", "a", "r", "k">>, tag |-> <<"F", "o", "r", "e", "s", "t", "r", "y">>],
      [key |-> <<"t", "a", "n", "n", "i", "n">>, tag |-> <<"L", "e", "a", "t", "h", "e", "r">>],
      [key |-> <<"i", "n", "g", "o", "t">>, tag |-> <<"S", "m", "i", "t", "h", "i", "n", "g">>],
      [key |-> <<"f", "i", "b", "e", "r">>, tag |-> <<"T", "e", "x", "t", "i", "l", "e">>],
      [key |-> <<"l", "e", "a", "t", "h", "e", "r">>, tag |-> <<"L", "e", "a", "t", "h", "e", "r">>],
      [key |-> <<"r", "a", "w", " ", "p", "e", "l", "t">>, tag |-> <<"L", "e", "a", "t", "h", "e", "r">>],
      [key |-> <<"f", "i", "s", "h", " ", "o", "i", "l">>, tag |-> <<"F", "o", "o", "d">>],
      [key |-> <<"f", "l", "o", "w", "e", "r">>, tag |-> <<"F", "a", "r", "m", "i", "n", "g">>],
      [key |-> <<"p", "i", "t", "c", "h">>, tag |-> <<"F", "o", "r", "e", "s", "t", "r", "y">>],
      [key |-> <<"r", "o", "p", "e">>, tag |-> <<"T", "e", "x", "t", "i", "l", "e">>],
      [key |-> <<"v", "i", "a", "l">>, tag |-> <<"A", "l", "c", "h", "e", "m", "y">>],
      [key |-> <<"p", "a", "r", "c", "h", "m", "e", "n", "t">>, tag |-> <<"S", "c", "r", "i", "b", "i", "n", "g">>],
      [key |-> <<"p", "i", "g", "m", "e", "n", "t">>, tag |-> <<"S", "c", "r", "i", "b", "i", "n", "g">>],
      [key |-> <<"i", "n", "k">>, tag |-> <<"S", "c", "r", "i", "b", "i", "n", "g">>],
      [key |-> <<"s", "t", "o", "n", "e", " ", "c", "a", "r", "v", "i", "n", "g">>, tag |-> <<"C", "o", "n", "s", "t", "r", "u", "c", "t", "i", "o", "n">>]>>

sCommon == <<"C", "o", "m", "m", "o", "n">>
sUncommon == <<"U", "n", "c", "o", "m", "m", "o", "n">>
sRare == <<"R", "a", "r", "e">>
sEpic == <<"E", "p", "i", "c">>
sLegendary == <<"L", "e", "g", "e", "n", "d", "a", "r", "y">>
sMythic == <<"M", "y", "t", "h", "i", "c">>
sHexCoin == <<"H", "e", "x", " ", "C", "o", "i", "n">>
sAncientMetal == <<"A", "n", "c", "i", "e", "n", "t", " ", "M", "e", "t", "a", "l">>
sPackage == <<" ", "P", "a", "c", "k", "a", "g", "e">>
sOther == <<"O", "t", "h", "e", "r">>
sUnknown == <<"U", "n", "k", "n", "o", "w", "n">>
sPlayerPrefix == <<"P", "l", "a", "y", "e", "r", " ">>
sWallet == <<"W", "a", "l", "l", "e", "t">>
sToolbelt == <<"T", "o", "o", "l", "b", "e", "l", "t">>
sAll == <<"a", "l", "l">>

-----------------------------------------------------------------------------
(* Item normalisation *)

Min(S) == CHOOSE x \in S : \A y \in S : x <= y

\* a || b
JsOr(a, b) == IF Truthy(a) THEN a ELSE b

\* lo <= v && v <= hi, for a number v and integers lo, hi
NumberInRange(v, lo, hi) ==
    CASE v.k = "int" -> lo <= v.n /\ v.n <= hi
      [] v.k = "frac" -> lo <= v.n /\ v.n + 1 <= hi
      [] v.k = "-0" -> lo <= 0 /\ 0 <= hi
      [] OTHER -> FALSE

\* v < 1, for a number v
LessThanOne(v) ==
    CASE v.k = "int" -> v.n < 1
      [] v.k = "frac" -> v.n < 0 \/ v.n = 0
      [] v.k = "-0" -> TRUE
      [] v.k = "-Infinity" -> TRUE
      [] OTHER -> FALSE

getBaseItemNameKeepingSpace(name) ==
    LET hits == {i \in 1..Len(baseItemTierPrefixes) :
                    StartsWith(name, baseItemTierPrefixes[i] \o <<" ">>)}
    IN  IF hits = {} THEN name
        ELSE SubSeq(name, Len(baseItemTierPrefixes[Min(hits)]) + 1, Len(name))

\* lines 508-523
getBaseItemName(name) ==
    LET hits == {i \in 1..Len(baseItemTierPrefixes) :
                    StartsWith(name, baseItemTierPrefixes[i] \o <<" ">>)}
    IN  IF hits = {} THEN name
        ELSE SubSeq(name, Len(baseItemTierPrefixes[Min(hits)]) + 2, Len(name))

deriveTierFromNameSpecialFirst(name) ==
    LET hits == {i \in 1..Len(tierPrefixes) :
                    StartsWith(name, tierPrefixes[i].prefix \o <<" ">>)}
    IN  IF Includes(name, sHexCoin) THEN -1
        ELSE IF Includes(name, sAncientMetal) THEN -1
        ELSE IF hits # {} THEN tierPrefixes[Min(hits)].tier
        ELSE 0

\* lines 525-567
deriveTierFromName(name) ==
    LET hits == {i \in 1..Len(tierPrefixes) :
                    StartsWith(name, tierPrefixes[i].prefix \o <<" ">>)}
    IN  IF hits # {} THEN tierPrefixes[Min(hits)].tier
        ELSE IF Includes(name, sHexCoin) THEN -1
        ELSE IF Includes(name, sAncientMetal) THEN -1
        ELSE 0

shouldSkipItemIgnoringSpace(name) ==
    \E i \in 1..Len(skipPrefixes) : StartsWith(name, skipPrefixes[i])

\* lines 595-618
shouldSkipItem(name) ==
    \E i \in 1..Len(skipPrefixes) : StartsWith(name, skipPrefixes[i] \o <<" ">>)

normalizeTierAnyNumber(tier) ==
    CASE tier.t \in {"undefined", "null", "boolean"} -> Null
      [] tier.t = "number" -> tier
      [] OTHER -> Null

\* lines 620-667
normalizeTier(tier) ==
    CASE tier.t \in {"undefined", "null"} -> Null
      [] tier.t = "boolean" -> Null
      [] tier.t = "string" ->
            LET hits == {i \in 1..Len(tierMap) : Includes(tier.s, tierMap[i].name)}
            IN  IF hits # {} THEN Num(tierMap[Min(hits)].num)
                ELSE IF MatchStart(tier.s) # 0 THEN ParseMatchedInt(tier.s)
                ELSE Null
      [] tier.t = "number" -> IF NumberInRange(tier, -1, 8) THEN tier ELSE Null
      [] OTHER -> Null

normalizeRarityEpicFirst(rarity) ==
    IF ~Truthy(rarity) THEN sCommon
    ELSE IF rarity.t # "string" THEN sCommon
    ELSE LET r == Trim(rarity.s)
         IN  IF Includes(r, sCommon) THEN sCommon
             ELSE IF Includes(r, sUncommon) THEN sUncommon
             ELSE IF Includes(r, sEpic) THEN sEpic
             ELSE IF Includes(r, sRare) THEN sRare
             ELSE IF Includes(r, sLegendary) THEN sLegendary
             ELSE IF Includes(r, sMythic) THEN sMythic
             ELSE r

\* lines 669-681
normalizeRarity(rarity) ==
    IF ~Truthy(rarity) THEN sCommon
    ELSE IF rarity.t # "string" THEN sCommon
    ELSE LET r == Trim(rarity.s)
         IN  IF Includes(r, sCommon) THEN sCommon
             ELSE IF Includes(r, sUncommon) THEN sUncommon
             ELSE IF Includes(r, sRare) THEN sRare
             ELSE IF Includes(r, sEpic) THEN sEpic
             ELSE IF Includes(r, sLegendary) THEN sLegendary
             ELSE IF Includes(r, sMythic) THEN sMythic
             ELSE r

\* an item-details object; a field the object lacks reads as Undef
Details(name, itemName, tier, rarityStr, rarity, tag) ==
    [t |-> "object", name |-> name, itemName |-> itemName, tier |-> tier,
     rarityStr |-> rarityStr, rarity |-> rarity, tag |-> tag,
     quantity |-> Undef, itemId |-> Undef, item_id |-> Undef]

\* lines 467-505: the items array after the call
extractItemFromDetails(itemDetails, quantity, items, playerId, location) ==
    IF ~Truthy(itemDetails) THEN items
    ELSE LET name == JsOr(itemDetails.name, itemDetails.itemName)
             rarity == JsOr(itemDetails.rarityStr, itemDetails.rarity)
         IN  IF ~(Truthy(name) /\ name.t = "string") THEN items
             ELSE IF shouldSkipItem(name.s) THEN items
             ELSE LET t == normalizeTier(itemDetails.tier)
                      tier == IF t = Null THEN Num(deriveTierFromName(name.s)) ELSE t
                  IN  Append(items,
                             [name |-> name.s,
                              tier |-> tier,
                              rarity |-> normalizeRarity(rarity),
                              count |-> quantity,
                              playerId |-> playerId,
                              location |-> location,
                              baseItem |-> getBaseItemName(name.s),
                              tag |-> JsOr(itemDetails.tag, Str(sOther))])

\* object[key] for a lookup object keyed by entity id
Lookup(object, key) ==
    IF key.t = "number" /\ key.k = "int" /\ key.n \in DOMAIN object
    THEN object[key.n]
    ELSE Undef

\* a pocket; a field the pocket lacks reads as Undef
Pocket(contents, quantity, item_id) ==
    [t |-> "object", contents |-> contents, quantity |-> quantity, item_id |-> item_id]

\* lines 409-440: the quantity the pocket is taken to hold, Undef when the
\* pocket is skipped
pocketQuantity(pocket) ==
    LET contents == pocket.contents
        quantity == IF Truthy(contents) /\ contents.t = "object"
                    THEN contents.quantity
                    ELSE pocket.quantity
        parsed == IF quantity.t # "number"
                  THEN IF quantity.t = "string" /\ AllDigits(quantity.s)
                       THEN Num(DecimalValue(quantity.s))
                       ELSE Undef
                  ELSE quantity
    IN  IF parsed = Undef THEN Undef
        ELSE IF LessThanOne(parsed) THEN Undef
        ELSE parsed

\* lines 411-455: the details the pocket's item is taken from, Null when none
pocketDetails(pocket, itemsLookup, cargosLookup, database) ==
    LET contents == pocket.contents
        isObject == Truthy(contents) /\ contents.t = "object"
        itemEntityId == IF isObject
                        THEN JsOr(contents.itemId, contents.item_id)
                        ELSE JsOr(contents, pocket.item_id)
        inline == IF isObject /\ Truthy(JsOr(contents.name, contents.itemName))
                  THEN contents
                  ELSE Null
    IN  IF ~Truthy(inline) /\ Truthy(itemEntityId)
        THEN LET found == JsOr(Lookup(itemsLookup, itemEntityId),
                               Lookup(cargosLookup, itemEntityId))
                 dbItem == Lookup(database, itemEntityId)
             IN  IF (~Truthy(found) \/ (~Truthy(found.name) /\ ~Truthy(found.itemName)))
                    /\ Truthy(dbItem)
                 THEN dbItem
                 ELSE found
        ELSE inline

\* lines 404-460: the items array after the pockets from position i on
RECURSIVE processPockets(_, _, _, _, _, _, _)
processPockets(pockets, i, items, decoded, database, entityId, locationName) ==
    IF i > Len(pockets) THEN items
    ELSE LET pocket == pockets[i]
             quantity == pocketQuantity(pocket)
             itemDetails == pocketDetails(pocket, decoded.items, decoded.cargos, database)
             next == IF quantity = Undef THEN items
                     ELSE IF Truthy(itemDetails)
                             /\ Truthy(JsOr(itemDetails.name, itemDetails.itemName))
                     THEN extractItemFromDetails(itemDetails, quantity, items,
                                                 entityId, locationName)
                     ELSE items
         IN  processPockets(pockets, i + 1, next, decoded, database, entityId,
                            locationName)

\* an inventory container; a field the container lacks reads as Undef
Container(inventoryName, name, pockets) ==
    [t |-> "object", inventoryName |-> inventoryName, name |-> name, pockets |-> pockets]

skipContainers == {sWallet, sToolbelt}

\* lines 396-461: the items array after the containers from position i on
RECURSIVE processContainers(_, _, _, _, _, _)
processContainers(containers, i, items, decoded, database, entityId) ==
    IF i > Len(containers) THEN items
    ELSE LET container == containers[i]
             locationName == JsOr(JsOr(container.inventoryName, container.name),
                                  Str(sUnknown))
             pockets == IF Truthy(container.pockets) THEN container.pockets.elems ELSE <<>>
             next == IF locationName.t = "string" /\ locationName.s \in skipContainers
                     THEN items
                     ELSE processPockets(pockets, 1, items, decoded, database,
                                         entityId, locationName)
         IN  processContainers(containers, i + 1, next, decoded, database, entityId)

\* what decodeSvelteKitData gave for an inventory response: the decoded
\* object (its lookups are maps from entity id to details), or Null
Decoded(inventories, itemsLookup, cargosLookup) ==
    [t |-> "object", inventories |-> inventories, items |-> itemsLookup,
     cargos |-> cargosLookup]

\* lines 378-464, with database = this.itemDatabase: ok is FALSE when the
\* call throws
fetchPlayerInventory(decoded, database, entityId) ==
    IF ~Truthy(decoded) THEN [ok |-> FALSE, items |-> <<>>]
    ELSE IF ~Truthy(decoded.inventories) THEN [ok |-> TRUE, items |-> <<>>]
    ELSE LET containers == IF decoded.inventories.t = "array"
                           THEN decoded.inventories.elems
                           ELSE <<>>
         IN  [ok |-> TRUE,
              items |-> processContainers(containers, 1, <<>>, decoded, database,
                                         entityId)]

-----------------------------------------------------------------------------
(* Package expansion, filtering and aggregation *)

\* the concatenation of the sequences of a sequence
RECURSIVE Flatten(_)
Flatten(seqs) ==
    IF seqs = <<>> THEN <<>> ELSE Head(seqs) \o Flatten(Tail(seqs))

\* a * q, for a number a and a positive integer q
Times(a, q) ==
    CASE a.k = "int" -> Num(a.n * q)
      [] a.k = "frac" -> IF q % 2 = 0
                         THEN Num(a.n * q + q \div 2)
                         ELSE NumK("frac", a.n * q + (q - 1) \div 2)
      [] a.k = "-0" -> NegZero
      [] OTHER -> a

PlusKeepFirst(a, b) == a

\* a + b, for numbers a and b
Plus(a, b) ==
    CASE a.k = "NaN" \/ b.k = "NaN" -> NaN
      [] a.k = "Infinity" -> IF b.k = "-Infinity" THEN NaN ELSE PosInfinity
      [] a.k = "-Infinity" -> IF b.k = "Infinity" THEN NaN ELSE NegInfinity
      [] b.k \in {"Infinity", "-Infinity"} -> b
      [] a.k = "-0" -> IF b.k = "-0" THEN NegZero ELSE b
      [] b.k = "-0" -> a
      [] a.k = "int" /\ b.k = "int" -> Num(a.n + b.n)
      [] a.k = "frac" /\ b.k = "frac" -> Num(a.n + b.n + 1)
      [] a.k = "frac" -> NumK("frac", a.n + b.n)
      [] OTHER -> NumK("frac", a.n + b.n)

\* a === b, for numbers a and b
StrictEqualNumbers(a, b) ==
    CASE a.k = "NaN" \/ b.k = "NaN" -> FALSE
      [] a.k = "-0" -> b.k = "-0" \/ (b.k = "int" /\ b.n = 0)
      [] b.k = "-0" -> a.k = "int" /\ a.n = 0
      [] OTHER -> a = b

\* parseInt(s), for a string of an optional sign and decimal digits
parseInt(s) ==
    LET negative == s # <<>> /\ s[1] = "-"
        signed == s # <<>> /\ s[1] \in {"-", "+"}
        digits == DigitRun(IF signed THEN Tail(s) ELSE s, 1)
    IN  IF digits = <<>> THEN NaN
        ELSE IF negative
             THEN IF DecimalValue(digits) = 0 THEN NegZero
                  ELSE Num(0 - DecimalValue(digits))
             ELSE Num(DecimalValue(digits))

\* the decimal digits of a natural number
RECURSIVE NatToString(_)
NatToString(n) ==
    IF n < 10 THEN <<DigitChars[n + 1]>>
    ELSE NatToString(n \div 10) \o <<DigitChars[(n % 10) + 1]>>

\* `${v}`, for a number v
NumberToString(v) ==
    CASE v.k = "NaN" -> <<"N", "a", "N">>
      [] v.k = "Infinity" -> <<"I", "n", "f", "i", "n", "i", "t", "y">>
      [] v.k = "-Infinity" -> <<"-", "I", "n", "f", "i", "n", "i", "t", "y">>
      [] v.k = "-0" -> <<"0">>
      [] v.k = "int" -> IF v.n < 0 THEN <<"-">> \o NatToString(0 - v.n)
                        ELSE NatToString(v.n)
      [] v.k = "frac" -> IF v.n < 0
                         THEN <<"-">> \o NatToString(0 - v.n - 1) \o <<".", "5">>
                         ELSE NatToString(v.n) \o <<".", "5">>

getPackageInfoAnySuffix(itemName) ==
    IF ~EndsWith(itemName, sPackage) THEN [isPackage |-> FALSE]
    ELSE [isPackage |-> TRUE,
          baseItemName |-> SubSeq(itemName, 1, Len(itemName) - 8),
          quantityPer |-> PACKAGE_CONTENTS[1].quantity]

\* lines 832-851
getPackageInfo(itemName) ==
    IF ~EndsWith(itemName, sPackage) THEN [isPackage |-> FALSE]
    ELSE LET hits == {i \in 1..Len(PACKAGE_CONTENTS) :
                         EndsWith(itemName, PACKAGE_CONTENTS[i].suffix)}
         IN  IF hits = {} THEN [isPackage |-> FALSE]
             ELSE [isPackage |-> TRUE,
                   baseItemName |-> SubSeq(itemName, 1, Len(itemName) - 8),
                   quantityPer |-> PACKAGE_CONTENTS[Min(hits)].quantity]

\* lines 908-944
inferTagForBaseItem(itemName) ==
    LET baseItemName == ToLowerCase(getBaseItemName(itemName))
        hits == {i \in 1..Len(tagMappings) : Includes(baseItemName, tagMappings[i].key)}
    IN  IF hits = {} THEN Null ELSE Str(tagMappings[Min(hits)].tag)

\* lines 860-872: allItems, every player's items in the order of the map
collectAllItems(playerMap) ==
    Flatten([p \in 1..Len(playerMap) |->
               [k \in 1..Len(playerMap[p].items) |->
                  [name |-> playerMap[p].items[k].name,
                   tier |-> playerMap[p].items[k].tier,
                   rarity |-> playerMap[p].items[k].rarity,
                   count |-> playerMap[p].items[k].count,
                   playerId |-> playerMap[p].items[k].playerId,
                   location |-> playerMap[p].items[k].location,
                   baseItem |-> playerMap[p].items[k].baseItem,
                   tag |-> playerMap[p].items[k].tag,
                   playerName |-> playerMap[p].username]]])

\* lines 858-870: baseItemTags.get(name), the tag the last non-package item
\* of that name set
baseItemTagsGet(allItems, name) ==
    LET hits == {k \in 1..Len(allItems) :
                    /\ allItems[k].name = name
                    /\ ~EndsWith(allItems[k].name, sPackage)
                    /\ Truthy(allItems[k].tag)}
    IN  IF hits = {} THEN Undef
        ELSE allItems[CHOOSE k \in hits : \A j \in hits : j <= k].tag

expandItemInferringFirst(item, allItems) ==
    LET pkgInfo == getPackageInfo(item.name)
    IN  IF ~pkgInfo.isPackage THEN <<>>
        ELSE <<[name |-> pkgInfo.baseItemName,
                tier |-> item.tier,
                rarity |-> item.rarity,
                count |-> Times(item.count, pkgInfo.quantityPer),
                playerId |-> item.playerId,
                location |-> item.location,
                baseItem |-> getBaseItemName(pkgInfo.baseItemName),
                tag |-> JsOr(JsOr(inferTagForBaseItem(pkgInfo.baseItemName),
                                  baseItemTagsGet(allItems, pkgInfo.baseItemName)),
                             item.tag),
                playerName |-> item.playerName,
                fromPackage |-> TRUE]>>

\* lines 878-898: what the second pass pushes for one item
expandItem(item, allItems) ==
    LET pkgInfo == getPackageInfo(item.name)
    IN  IF ~pkgInfo.isPackage THEN <<>>
        ELSE <<[name |-> pkgInfo.baseItemName,
                tier |-> item.tier,
                rarity |-> item.rarity,
                count |-> Times(item.count, pkgInfo.quantityPer),
                playerId |-> item.playerId,
                location |-> item.location,
                baseItem |-> getBaseItemName(pkgInfo.baseItemName),
                tag |-> JsOr(JsOr(baseItemTagsGet(allItems, pkgInfo.baseItemName),
                                  inferTagForBaseItem(pkgInfo.baseItemName)),
                             item.tag),
                playerName |-> item.playerName,
                fromPackage |-> TRUE]>>

\* lines 853-905
getAllItems(playerMap, expand) ==
    LET allItems == collectAllItems(playerMap)
        packageContents ==
            IF expand
            THEN Flatten([k \in 1..Len(allItems) |-> expandItem(allItems[k], allItems)])
            ELSE <<>>
    IN  allItems \o packageContents

getFilteredItemsAnyRarity(playerMap, expand, tierFilter, rarityFilter, tagFilter, searchValue) ==
    LET keep(i) ==
            /\ expand => ~EndsWith(i.name, sPackage)
            /\ tierFilter # sAll => StrictEqualNumbers(i.tier, parseInt(tierFilter))
            /\ tagFilter # sAll => (i.tag.t = "string" /\ i.tag.s = tagFilter)
            /\ Trim(ToLowerCase(searchValue)) # <<>> =>
                  Includes(ToLowerCase(i.name), Trim(ToLowerCase(searchValue)))
    IN  SelectSeq(getAllItems(playerMap, expand), keep)

\* lines 946-979, with the values of the filter controls; the filters the
\* code applies one after the other are applied to each item in that order
getFilteredItems(playerMap, expand, tierFilter, rarityFilter, tagFilter, searchValue) ==
    LET keep(i) ==
            /\ expand => ~EndsWith(i.name, sPackage)
            /\ tierFilter # sAll => StrictEqualNumbers(i.tier, parseInt(tierFilter))
            /\ rarityFilter # sAll => i.rarity = rarityFilter
            /\ tagFilter # sAll => (i.tag.t = "string" /\ i.tag.s = tagFilter)
            /\ Trim(ToLowerCase(searchValue)) # <<>> =>
                  Includes(ToLowerCase(i.name), Trim(ToLowerCase(searchValue)))
    IN  SelectSeq(getAllItems(playerMap, expand), keep)

\* lines 988-990: the key an item is aggregated under
aggregateKey(item, groupByValue) ==
    LET key == item.name \o <<"|">> \o NumberToString(item.tier) \o <<"|">> \o item.rarity
    IN  IF groupByValue = "player" THEN key \o <<"|">> \o item.playerName ELSE key

\* lines 997-998: playerQuantities after adding count for playerName
setPlayerQuantity(playerQuantities, playerName, count) ==
    LET hits == {k \in 1..Len(playerQuantities) :
                    playerQuantities[k].playerName = playerName}
    IN  IF hits = {}
        THEN Append(playerQuantities, [playerName |-> playerName, quantity |-> count])
        ELSE LET k == CHOOSE h \in hits : TRUE
                 currentQty == JsOr(playerQuantities[k].quantity, Num(0))
             IN  [playerQuantities EXCEPT ![k].quantity = Plus(currentQty, count)]

\* lines 985-1008: the map after the items from position i on; the map is a
\* sequence of [key, value] entries in insertion order
RECURSIVE aggregateFrom(_, _, _, _)
aggregateFrom(items, i, aggregated, groupByValue) ==
    IF i > Len(items) THEN aggregated
    ELSE LET item == items[i]
             key == aggregateKey(item, groupByValue)
             hits == {k \in 1..Len(aggregated) : aggregated[k].key = key}
             next ==
               IF hits # {}
               THEN LET k == CHOOSE h \in hits : TRUE
                        existing == aggregated[k].value
                    IN  [aggregated EXCEPT ![k].value =
                           [existing EXCEPT
                              !.count = Plus(existing.count, item.count),
                              !.playerQuantities =
                                 IF item.playerName # <<>>
                                 THEN setPlayerQuantity(existing.playerQuantities,
                                                        item.playerName, item.count)
                                 ELSE existing.playerQuantities]]
               ELSE Append(aggregated,
                           [key |-> key,
                            value |-> [item |-> item,
                                       count |-> item.count,
                                       playerQuantities |->
                                          IF item.playerName # <<>>
                                          THEN <<[playerName |-> item.playerName,
                                                  quantity |-> item.count]>>
                                          ELSE <<>>]])
         IN  aggregateFrom(items, i + 1, next, groupByValue)

\* lines 981-1011: Array.from(aggregated.values()); each value is the first
\* item of its key (item), with the summed count and the playerQuantities map
aggregateItems(items, groupByValue) ==
    LET aggregated == aggregateFrom(items, 1, <<>>, groupByValue)
    IN  [k \in 1..Len(aggregated) |-> aggregated[k].value]

-----------------------------------------------------------------------------
(* The inputs of the normalisation pipeline *)

sWidget == <<"W", "i", "d", "g", "e", "t">>
sSimpleClayLump == <<"S", "i", "m", "p", "l", "e", " ", "C", "l", "a", "y", " ", "L", "u", "m", "p">>
sNoviceSchematic == <<"N", "o", "v", "i", "c", "e", " ", "F", "i", "s", "h", "i", "n", "g", " ", "R", "o", "d", " ", "S", "c", "h", "e", "m", "a", "t", "i", "c">>
sStorage == <<"S", "t", "o", "r", "a", "g", "e">>
sBank == <<"B", "a", "n", "k">>
sTool == <<"T", "o", "o", "l">>
sJunk == <<"j", "u", "n", "k">>
sTier2Common == <<"T", "i", "e", "r", " ", "2", " ", "C", "o", "m", "m", "o", "n">>

\* what follows the first word of a probe name
NameTails ==
    {<<>>,
     <<"S", "w", "o", "r", "d">>,
     <<"C", "l", "a", "y", " ", "L", "u", "m", "p">>,
     <<"H", "e", "x", " ", "C", "o", "i", "n">>,
     <<"A", "n", "c", "i", "e", "n", "t", " ", "M", "e", "t", "a", "l", " ", "B", "a", "r">>,
     <<"C", "l", "a", "y", " ", "L", "u", "m", "p", " ", "P", "a", "c", "k", "a", "g", "e">>}

\* raw tier strings that name no tier
TierStrings ==
    {<<>>,
     <<"j", "u", "n", "k">>,
     <<"T", "i", "e", "r", " ", "3">>,
     <<"T", "1", "0">>,
     <<"-", "5">>,
     <<"3">>,
     <<"1", "9", "9", "9", "8">>,
     <<"T", "i", "e", "r", " ", "-", "1">>,
     <<"-">>,
     <<"x", "-", "y">>,
     <<"-", "0">>,
     <<"t", "i", "e", "r", " ", "1", "2", " ", "o", "f", " ", "3">>}

\* raw rarity strings
RarityStrings ==
    {<<>>,
     <<" ">>,
     <<"C", "o", "m", "m", "o", "n">>,
     <<"U", "n", "c", "o", "m", "m", "o", "n">>,
     <<"R", "a", "r", "e">>,
     <<"E", "p", "i", "c">>,
     <<"L", "e", "g", "e", "n", "d", "a", "r", "y">>,
     <<"M", "y", "t", "h", "i", "c">>,
     <<"M", "y", "t", "h", "i", "c", "a", "l">>,
     <<"T", "i", "e", "r", " ", "2", " ", "C", "o", "m", "m", "o", "n">>,
     <<" ", "R", "a", "r", "e", " ">>,
     <<"\t", "E", "p", "i", "c">>,
     <<"E", "p", "i", "c", " ", "R", "a", "r", "e">>,
     <<"R", "a", "r", "e", " ", "E", "p", "i", "c">>,
     <<"M", "y", "t", "h", "i", "c", " ", "L", "e", "g", "e", "n", "d", "a", "r", "y">>,
     <<"U", "n", "c", "o", "m", "m", "o", "n", " ", "C", "o", "m", "m", "o", "n">>,
     <<"c", "o", "m", "m", "o", "n">>,
     <<"F", "o", "o">>,
     <<" ", "F", "o", "o", "\t">>,
     <<"V", "e", "r", "y", " ", "R", "a", "r", "e">>}

\* raw quantity strings
QuantityStrings ==
    {<<>>,
     <<"5">>,
     <<"0", "0", "7">>,
     <<"0">>,
     <<"-", "3">>,
     <<"2", ".", "5">>,
     <<"a", "b", "c">>,
     <<"1", "2", "a">>,
     <<" ", "5">>,
     <<"1", "e", "3">>}

PrefixWords ==
    {skipPrefixes[i] : i \in 1..Len(skipPrefixes)}
        \cup {baseItemTierPrefixes[i] : i \in 1..Len(baseItemTierPrefixes)}

\* every prefix word of the code, as written and in lower case, with and
\* without the space, before each tail
ProbeNames ==
    {w \o sep \o tail :
        w \in PrefixWords \cup {ToLowerCase(p) : p \in PrefixWords},
        sep \in {<<" ">>, <<>>},
        tail \in NameTails}
        \cup (NameTails \ {<<>>})
        \cup {sWidget, sSimpleClayLump, sNoviceSchematic}

ProbeTiers ==
    {Undef, Null, Bool(TRUE), Bool(FALSE), NaN, PosInfinity, NegInfinity, NegZero,
     Num(19998), Num(6922186)}
        \cup {Num(n) : n \in (-3)..10}
        \cup {NumK("frac", n) : n \in {-2, -1, 2, 7, 8}}
        \cup {Str(s) : s \in TierStrings}
        \cup UNION {{Str(tierMap[i].name),
                     Str(ToLowerCase(tierMap[i].name)),
                     Str(tierMap[i].name \o <<" ", "7">>),
                     Str(<<"T", "7", " ">> \o tierMap[i].name)} : i \in 1..Len(tierMap)}

ProbeRarities ==
    {Undef, Null, Num(0), Num(3), NaN, Bool(TRUE), Bool(FALSE), PlainObject}
        \cup {Str(s) : s \in RarityStrings}

ProbeQuantities ==
    {Undef, Null, Bool(TRUE), NaN, PosInfinity, NegInfinity, NegZero}
        \cup {Num(n) : n \in {-1, 0, 1, 3, 500}}
        \cup {NumK("frac", n) : n \in {-1, 0, 1, 2}}
        \cup {Str(s) : s \in QuantityStrings}

\* where the pocket keeps its item: in contents itself; behind
\* contents.itemId in decoded.items; behind contents.item_id in
\* decoded.cargos; behind contents.itemId in the item database; behind the
\* entity id that contents is; behind pocket.item_id
ProbeShapes == {"inline", "items", "cargos", "database", "contentsId", "pocketItemId"}

BaseProbe ==
    [shape |-> "inline", inventoryName |-> Str(sStorage), containerName |-> Undef,
     name |-> Str(sWidget), itemName |-> Undef, tier |-> Num(3),
     rarityStr |-> Undef, rarity |-> Str(sRare), tag |-> Str(sTool),
     quantity |-> Num(3)]

FewNames == {sWidget, sSimpleClayLump, sHexCoin, sNoviceSchematic}

Probes ==
    {[BaseProbe EXCEPT !.name = Str(n), !.tier = t] :
        n \in ProbeNames, t \in {Undef, Num(3), Str(sJunk)}}
    \cup {[BaseProbe EXCEPT !.name = x, !.itemName = y] :
            x \in {Undef, Null, Str(<<>>), Num(5), Str(sWidget)},
            y \in {Undef, Str(<<>>), Num(5), Str(sSimpleClayLump), Str(sNoviceSchematic)}}
    \cup {[BaseProbe EXCEPT !.name = Str(n), !.tier = t] :
            n \in FewNames, t \in ProbeTiers}
    \cup {[BaseProbe EXCEPT !.name = Str(n), !.rarityStr = r] :
            n \in FewNames, r \in ProbeRarities}
    \cup {[BaseProbe EXCEPT !.rarityStr = x, !.rarity = r] :
            x \in {Undef, Str(<<>>), Str(sEpic)}, r \in ProbeRarities}
    \cup {[BaseProbe EXCEPT !.name = Str(n), !.quantity = q, !.shape = sh] :
            n \in FewNames, q \in ProbeQuantities, sh \in ProbeShapes}
    \cup {[BaseProbe EXCEPT !.name = Str(n), !.tag = g] :
            n \in FewNames, g \in {Undef, Null, Str(<<>>), Str(sTool), Num(4)}}
    \cup {[BaseProbe EXCEPT !.inventoryName = a, !.containerName = b] :
            a \in {Undef, Str(<<>>), Str(sStorage), Str(sWallet)},
            b \in {Undef, Str(sBank), Str(sToolbelt)}}
    \cup UNION {{[BaseProbe EXCEPT !.name = Str(tierMap[i].name \o <<" ">> \o sWidget),
                                    !.tier = t] : t \in {Undef, Str(tierMap[i].name)}} :
                    i \in 1..Len(tierMap)}

NoDetails == Details(Undef, Undef, Undef, Undef, Undef, Undef)

\* the details object the probe describes
ProbeDetails(p) == Details(p.name, p.itemName, p.tier, p.rarityStr, p.rarity, p.tag)

\* the entity id the probe's item has wherever it is looked up
ProbeEntity == Num(101)

\* lines 114-119: the entry loadItemDatabase stores for a catalog item
databaseEntry(item) ==
    Details(JsOr(item.name, item.itemName), Undef, item.tier, Undef,
            JsOr(item.rarityStr, item.rarity), item.tag)

\* the pocket the probe describes
ProbePocket(p) ==
    CASE p.shape = "inline" ->
            Pocket([ProbeDetails(p) EXCEPT !.quantity = p.quantity], Undef, Undef)
      [] p.shape \in {"items", "database"} ->
            Pocket([NoDetails EXCEPT !.quantity = p.quantity, !.itemId = ProbeEntity],
                   Undef, Undef)
      [] p.shape = "cargos" ->
            Pocket([NoDetails EXCEPT !.quantity = p.quantity, !.item_id = ProbeEntity],
                   Undef, Undef)
      [] p.shape = "contentsId" -> Pocket(ProbeEntity, p.quantity, Undef)
      [] p.shape = "pocketItemId" -> Pocket(Undef, p.quantity, ProbeEntity)

\* the decoded inventory response the probe describes: one container that
\* holds the one pocket
ProbeDecoded(p) ==
    Decoded(JArray(<<Container(p.inventoryName, p.containerName, JArray(<<ProbePocket(p)>>))>>),
            IF p.shape \in {"items", "contentsId", "pocketItemId"}
            THEN (ProbeEntity.n :> ProbeDetails(p)) ELSE <<>>,
            IF p.shape = "cargos" THEN (ProbeEntity.n :> ProbeDetails(p)) ELSE <<>>)

\* the item database the probe is fetched under
ProbeDatabase(p) ==
    IF p.shape = "database" THEN (ProbeEntity.n :> databaseEntry(ProbeDetails(p))) ELSE <<>>

-----------------------------------------------------------------------------
(* The inputs of the inventory view *)

sSimpleClayLumpPackage == sSimpleClayLump \o sPackage
sRoughWoodLogPackage == <<"R", "o", "u", "g", "h", " ", "W", "o", "o", "d", " ", "L", "o", "g">> \o sPackage
sFineIngotPackage == <<"F", "i", "n", "e", " ", "I", "n", "g", "o", "t">> \o sPackage
sRoughIngot == <<"R", "o", "u", "g", "h", " ", "I", "n", "g", "o", "t">>
sConstruction == <<"C", "o", "n", "s", "t", "r", "u", "c", "t", "i", "o", "n">>
sClay == <<"c", "l", "a", "y">>

\* the most addPlayer calls that await their inventory at a time
MaxPending == 1

\* the entity ids of the players that can be searched for
PlayerIds == {1, 2}

\* the username the search result gives for an entity id
Usernames == <<<<"A", "n", "n">>, <<"B", "o", "b">>, <<"C", "y">>, <<"D", "i">>>>

\* a pocket that carries its item's details inline
InlinePocket(name, tier, rarity, tag, quantity) ==
    Pocket([Details(Str(name), Undef, tier, Undef, rarity, tag) EXCEPT !.quantity = quantity],
           Undef, Undef)

\* a decoded inventory response with one container
Response(pockets) ==
    Decoded(JArray(<<Container(Str(sStorage), Undef, JArray(pockets))>>), <<>>, <<>>)

\* what decodeSvelteKitData can give for a player's inventory page: Null
\* when the page does not decode
Responses ==
    {Null,
     Response(<<InlinePocket(sSimpleClayLumpPackage, Num(2), Str(sCommon), Str(sPackage), Num(3)),
                InlinePocket(sSimpleClayLump, Num(2), Str(sCommon), Str(sConstruction), Num(2))>>),
     Response(<<InlinePocket(sRoughWoodLogPackage, Num(1), Str(sCommon), Undef, Num(1)),
                InlinePocket(sFineIngotPackage, Num(3), Str(sRare), Undef, Num(2))>>),
     Response(<<InlinePocket(sWidget, Num(3), Str(sRare), Undef, Num(5)),
                InlinePocket(sSimpleClayLump, Undef, Str(sCommon), Undef, Num(7))>>)}

\* what it can give when a player is added by hand: the same, and a page of
\* names and rarities that hold "|" next to a second ingot
AddResponses ==
    Responses \cup
    {Response(<<InlinePocket(<<"A", "|", "1">>, Num(2), Str(<<"X">>), Undef, Num(1)),
                InlinePocket(<<"A">>, Num(1), Str(<<"2", "|", "X">>), Undef, Num(4)),
                InlinePocket(sRoughIngot, Num(0), Str(sCommon), Undef, Num(2))>>)}

\* the values of the tier filter, the rarity filter, the group-by control
\* and the search box that are tried
TierFilters == {sAll, <<"2">>}
RarityFilters == {sAll, sRare}
GroupBys == {"none", "player"}
Searches == {<<>>, <<"L", "U", "M", "P", " ">>}

-----------------------------------------------------------------------------
(* Bounds of the decoder's inputs *)

\* the longest slots array of a graph document
MaxSlots == 2
\* the most references the root of a sentinel document holds
MaxRefs == 2
\* the most references an array / object slot of a graph document holds
MaxFanout == 1
\* the longest nodes array
MaxNodes == 2
\* the depth of hydrate recursion at which the engine throws RangeError
StackLimit == 6

-----------------------------------------------------------------------------
(* The wire format *)

\* an array slot: its elements are references
Arr(refs) == [t |-> "array", refs |-> refs]
KeyNames == <<"a", "b", "c", "d">>
\* an object slot: keys in insertion order, each mapped to a reference
Obj(refs) == [t |-> "object", keys |-> SubSeq(KeyNames, 1, Len(refs)), refs |-> refs]

IsComposite(v) == v.t \in {"array", "object"} /\ "refs" \in DOMAIN v

PrimSlots == {Str(<<"s">>), Bool(TRUE), Null, Num(7)}

RefSeqs(R, n) == UNION {[1..k -> R] : k \in 0..n}

CompositeSlots(R, n) == {Arr(r) : r \in RefSeqs(R, n)} \cup {Obj(r) : r \in RefSeqs(R, n)}

\* slots whose references stay inside the array: every graph, cyclic or not
GraphSlots ==
    UNION {[1..n -> PrimSlots \cup CompositeSlots(0..(n - 1), MaxFanout)] : n \in 1..MaxSlots}

NegativeIndices == (-6)..(-1)

\* a root that refers to negative indices and to slot 1 (more than once, when
\* it has the room), before any slot 1
SentinelSlots ==
    {<<root, s1>> :
        root \in CompositeSlots(NegativeIndices \cup {1}, MaxRefs) \ {Arr(<<>>), Obj(<<>>)},
        s1 \in PrimSlots \cup {Arr(<<k>>) : k \in NegativeIndices}
                         \cup {Obj(<<k>>) : k \in NegativeIndices}}

Node(type, d) == [t |-> "object", type |-> type, data |-> d]
Document(nodes) == [t |-> "object", nodes |-> nodes]

\* what a node's data field holds when it is not a slots array
OddData == {Undef, Null, PlainObject, Str(<<"s", "t">>), JArray(<<>>)}

NodeEntries ==
    {Null, Num(5)}
        \cup {Node(ty, d) : ty \in {"data", "skip"}, d \in OddData \cup {JArray(<<Num(7)>>)}}

\* a nodes value that is not an array
OddNodes == {Undef, Null, Num(0), Num(5), Str(<<>>), Str(<<"x">>), Bool(FALSE), Bool(TRUE), PlainObject}

Documents ==
    {Undef, Null, Num(5)}
        \cup {Document(n) : n \in OddNodes}
        \cup {Document(JArray(n)) : n \in UNION {[1..k -> NodeEntries] : k \in 0..MaxNodes}}
        \cup {Document(JArray(<<Null, Node("data", JArray(s))>>)) : s \in GraphSlots \cup SentinelSlots}

-----------------------------------------------------------------------------
(* decodeSvelteKitData *)

\* json.nodes.find(n => n && n.type === 'data' && n.data): the position of
\* the first such node, 0 when there is none
RECURSIVE FindDataNode(_, _)
FindDataNode(nodes, i) ==
    IF i > Len(nodes) THEN 0
    ELSE IF /\ Truthy(nodes[i])
            /\ nodes[i].t = "object"
            /\ "type" \in DOMAIN nodes[i]
            /\ nodes[i].type = "data"
            /\ Truthy(nodes[i].data)
         THEN i
         ELSE FindDataNode(nodes, i + 1)

\* data.length, Undef when data has no length
DataLength(d) ==
    CASE d.t = "array" -> Num(Len(d.elems))
      [] d.t = "string" -> Num(Len(d.s))
      [] OTHER -> Undef

\* data[index]
DataAt(d, index) ==
    CASE d.t = "array" /\ index >= 0 /\ index < Len(d.elems) -> d.elems[index + 1]
      [] d.t = "string" /\ index >= 0 /\ index < Len(d.s) -> Str(<<d.s[index + 1]>>)
      [] OTHER -> Undef

\* new Array(data.length): a number makes that many holes, anything else
\* makes the one-element array holding it
NewArray(len) == IF len.t = "number" THEN <<>> ELSE (0 :> len)

SentinelIndices == {-1, -3, -4, -5, -6}

SentinelValueSwapped(index) ==
    CASE index = -1 -> Undef
      [] index = -3 -> NaN
      [] index = -4 -> NegInfinity
      [] index = -5 -> PosInfinity
      [] index = -6 -> NegZero

\* lines 257-261
SentinelValue(index) ==
    CASE index = -1 -> Undef
      [] index = -3 -> NaN
      [] index = -4 -> PosInfinity
      [] index = -5 -> NegInfinity
      [] index = -6 -> NegZero

\* the store f[k] = v of a sparse array
Put(f, k, v) == [x \in DOMAIN f \cup {k} |-> IF x = k THEN v ELSE f[x]]

\* hydrate returned v: the caller on top of the stack stores it (arr.push /
\* obj[key] =) and goes on to its next reference, or, having none left,
\* returns its own array / object to its caller; with no caller left v is
\* what decodeSvelteKitData returns
RECURSIVE Deliver(_, _, _)
Deliver(stk, hp, v) ==
    IF stk = <<>>
    THEN [stack |-> <<>>, heap |-> hp, pc |-> "done", arg |-> 0, result |-> v]
    ELSE LET top == stk[Len(stk)]
             refs == DataAt(data, top.index).refs
             hp2 == [hp EXCEPT ![top.index].elems = Append(@, v)]
         IN  IF top.pos + 1 <= Len(refs)
             THEN [stack |-> [stk EXCEPT ![Len(stk)].pos = top.pos + 1],
                   heap |-> hp2, pc |-> "call", arg |-> refs[top.pos + 1],
                   result |-> Undef]
             ELSE Deliver(SubSeq(stk, 1, Len(stk) - 1), hp2, Ref(top.index))

Return(v) ==
    LET d == Deliver(stack, heap, v)
    IN  /\ stack' = d.stack
        /\ heap' = d.heap
        /\ pc' = d.pc
        /\ arg' = d.arg
        /\ result' = d.result

\* lines 244-252 and the call hydrate(0) of line 305
DecodeStart ==
    /\ pc = "start"
    /\ UNCHANGED <<json, heap, stack, dataReads, memoChecks, normalizeVars, viewerVars, marketSideVars, batchVars>>
    /\ IF ~Truthy(json) \/ ~("nodes" \in DOMAIN json) \/ ~Truthy(json.nodes)
       THEN /\ pc' = "done"
            /\ result' = Null
            /\ UNCHANGED <<data, hydrated, arg>>
       ELSE IF json.nodes.t # "array"
       THEN \* json.nodes.find is not a function
            /\ pc' = "thrown"
            /\ UNCHANGED <<data, hydrated, arg, result>>
       ELSE LET at == FindDataNode(json.nodes.elems, 1)
            IN  IF at = 0
                THEN /\ pc' = "done"
                     /\ result' = Null
                     /\ UNCHANGED <<data, hydrated, arg>>
                ELSE /\ data' = json.nodes.elems[at].data
                     /\ hydrated' = NewArray(DataLength(json.nodes.elems[at].data))
                     /\ arg' = 0
                     /\ pc' = "call"
                     /\ UNCHANGED result

\* lines 257-261
HydrateSentinel ==
    /\ pc = "call"
    /\ arg \in SentinelIndices
    /\ Return(SentinelValue(arg))
    /\ UNCHANGED <<json, data, hydrated, dataReads, memoChecks, normalizeVars, viewerVars, marketSideVars, batchVars>>

\* lines 264-266
HydrateMemoHit ==
    /\ pc = "call"
    /\ arg \notin SentinelIndices
    /\ arg \in DOMAIN hydrated
    /\ memoChecks' = Append(memoChecks, arg)
    /\ Return(hydrated[arg])
    /\ UNCHANGED <<json, data, hydrated, dataReads, normalizeVars, viewerVars, marketSideVars, batchVars>>

\* the call reached line 268
Miss ==
    /\ pc = "call"
    /\ arg \notin SentinelIndices
    /\ arg \notin DOMAIN hydrated
    /\ memoChecks' = Append(memoChecks, arg)
    /\ dataReads' = Append(dataReads, arg)

\* lines 271-274
HydratePrimitive ==
    /\ Miss
    /\ DataAt(data, arg).t \in {"string", "boolean", "null"}
    /\ hydrated' = Put(hydrated, arg, DataAt(data, arg))
    /\ Return(DataAt(data, arg))
    /\ UNCHANGED <<json, data, normalizeVars, viewerVars, marketSideVars, batchVars>>

HydrateNumberNoMemo ==
    /\ Miss
    /\ DataAt(data, arg).t = "number"
    /\ Return(DataAt(data, arg))
    /\ UNCHANGED <<json, data, hydrated, normalizeVars, viewerVars, marketSideVars, batchVars>>

\* lines 277-280
HydrateNumber ==
    /\ Miss
    /\ DataAt(data, arg).t = "number"
    /\ hydrated' = Put(hydrated, arg, DataAt(data, arg))
    /\ Return(DataAt(data, arg))
    /\ UNCHANGED <<json, data, normalizeVars, viewerVars, marketSideVars, batchVars>>

\* the array / object of slot arg is allocated and, when memoize, stored in
\* the memo before its first reference is hydrated
Enter(kind, memoize) ==
    LET value == DataAt(data, arg)
        fresh == [kind |-> kind, keys |-> IF kind = "object" THEN value.keys ELSE <<>>,
                  elems |-> <<>>]
    IN  /\ hydrated' = IF memoize THEN Put(hydrated, arg, Ref(arg)) ELSE hydrated
        /\ IF Len(stack) >= StackLimit
           THEN \* RangeError: Maximum call stack size exceeded
                /\ pc' = "thrown"
                /\ UNCHANGED <<heap, stack, arg, result>>
           ELSE IF value.refs = <<>>
           THEN LET d == Deliver(stack, Put(heap, arg, fresh), Ref(arg))
                IN  /\ stack' = d.stack
                    /\ heap' = d.heap
                    /\ pc' = d.pc
                    /\ arg' = d.arg
                    /\ result' = d.result
           ELSE /\ heap' = Put(heap, arg, fresh)
                /\ stack' = Append(stack, [index |-> arg, pos |-> 1])
                /\ arg' = value.refs[1]
                /\ UNCHANGED <<pc, result>>

HydrateArrayNoEarlyStore ==
    /\ Miss
    /\ DataAt(data, arg).t = "array"
    /\ Enter("array", FALSE)
    /\ UNCHANGED <<json, data, normalizeVars, viewerVars, marketSideVars, batchVars>>

\* lines 283-290
HydrateArray ==
    /\ Miss
    /\ DataAt(data, arg).t = "array"
    /\ Enter("array", TRUE)
    /\ UNCHANGED <<json, data, normalizeVars, viewerVars, marketSideVars, batchVars>>

\* lines 293-300
HydrateObject ==
    /\ Miss
    /\ DataAt(data, arg).t = "object"
    /\ Enter("object", TRUE)
    /\ UNCHANGED <<json, data, normalizeVars, viewerVars, marketSideVars, batchVars>>

\* line 302
HydrateOther ==
    /\ Miss
    /\ DataAt(data, arg).t = "undefined"
    /\ Return(DataAt(data, arg))
    /\ UNCHANGED <<json, data, hydrated, normalizeVars, viewerVars, marketSideVars, batchVars>>

NotFetched == [done |-> FALSE, ok |-> FALSE, items |-> <<>>]

\* lines 373-465, from the decoded response on
FetchProbe ==
    /\ ~fetched.done
    /\ LET r == fetchPlayerInventory(ProbeDecoded(probe), itemDatabase, "p1")
       IN  fetched' = [done |-> TRUE, ok |-> r.ok, items |-> r.items]
    /\ UNCHANGED <<probe, itemDatabase, decodeVars, viewerVars, marketSideVars, batchVars>>

DecodeIdle ==
    /\ json = Undef
    /\ data = JArray(<<>>)
    /\ hydrated = <<>>
    /\ heap = <<>>
    /\ stack = <<>>
    /\ arg = 0
    /\ pc = "start"
    /\ result = Undef
    /\ dataReads = <<>>
    /\ memoChecks = <<>>

ViewerIdle ==
    /\ players = <<>>
    /\ expandPackages = TRUE
    /\ filterTier = sAll
    /\ filterRarity = sAll
    /\ filterTag = sAll
    /\ search = <<>>
    /\ groupBy = "none"
    /\ pending = {}
    /\ loading = FALSE
    /\ renderedAll = <<>>
    /\ renderedFiltered = <<>>
    /\ renderedAggregated = <<>>
    /\ sortBySelect = "name"
    /\ sortOrderSelect = "asc"
    /\ inventoryContent = <<>>

PlayerMarketIdle ==
    /\ selectedPlayer = Null
    /\ sellOrders = <<>>
    /\ buyOrders = <<>>
    /\ cheapestCache = <<>>
    /\ marketLoads = <<>>
    /\ cheapestRuns = <<>>

BatchIdle == batches = <<>>

\* lines 1318-1326: the market viewer as its constructor leaves it
MarketIdle ==
    /\ marketItems = <<>>
    /\ selectedTags = {}
    /\ searchTerm = <<>>
    /\ sortOrder = "asc"
    /\ priceRuns = <<>>
    /\ priceRequests = <<>>

\* worker.js before a request arrives
ProxyIdle ==
    /\ proxyRequest = Null
    /\ proxyTarget = <<>>
    /\ proxyUpstream = Null
    /\ proxyResponse = Null

MarketSideIdle ==
    /\ PlayerMarketIdle
    /\ BatchIdle
    /\ MarketIdle
    /\ ProxyIdle

NormalizeIdle ==
    /\ probe = BaseProbe
    /\ itemDatabase = <<>>
    /\ fetched = NotFetched

InitNormalize ==
    /\ MarketSideIdle
    /\ probe \in Probes
    /\ itemDatabase = ProbeDatabase(probe)
    /\ fetched = NotFetched
    /\ DecodeIdle
    /\ ViewerIdle

NextNormalize == FetchProbe

SpecNormalize == InitNormalize /\ [][NextNormalize]_vars

InitDecode ==
    /\ MarketSideIdle
    /\ NormalizeIdle
    /\ ViewerIdle
    /\ json \in Documents
    /\ data = JArray(<<>>)
    /\ hydrated = <<>>
    /\ heap = <<>>
    /\ stack = <<>>
    /\ arg = 0
    /\ pc = "start"
    /\ result = Undef
    /\ dataReads = <<>>
    /\ memoChecks = <<>>

NextDecode ==
    \/ DecodeStart
    \/ HydrateSentinel
    \/ HydrateMemoHit
    \/ HydratePrimitive
    \/ HydrateNumber
    \/ HydrateArray
    \/ HydrateObject
    \/ HydrateOther

SpecDecode == InitDecode /\ [][NextDecode]_vars

\* a call of decodeSvelteKitData runs to its end without being suspended
SpecDecodeFair == SpecDecode /\ WF_vars(NextDecode)

-----------------------------------------------------------------------------
(* The inventory view *)

\* this.players.has(entityId)
playersHas(playerMap, entityId) ==
    \E p \in 1..Len(playerMap) : playerMap[p].entityId = entityId

\* a write that is dropped when the map does not hold the key any more
playersSetKnownOnly(playerMap, entityId, value) ==
    [p \in 1..Len(playerMap) |->
        IF playerMap[p].entityId = entityId
        THEN [entityId |-> entityId, username |-> value.username, items |-> value.items]
        ELSE playerMap[p]]

\* this.players.set(entityId, value): a key the map holds keeps its place
playersSet(playerMap, entityId, value) ==
    IF playersHas(playerMap, entityId)
    THEN [p \in 1..Len(playerMap) |->
            IF playerMap[p].entityId = entityId
            THEN [entityId |-> entityId, username |-> value.username, items |-> value.items]
            ELSE playerMap[p]]
    ELSE Append(playerMap,
                [entityId |-> entityId, username |-> value.username, items |-> value.items])

\* this.players.delete(entityId)
playersDelete(playerMap, entityId) ==
    LET keep(p) == p.entityId # entityId
    IN  SelectSeq(playerMap, keep)

\* lines 1023-1029: the tags of the items, which the dropdown offers
tagOptions(items) ==
    {items[k].tag.s : k \in {j \in 1..Len(items) :
                               Truthy(items[j].tag) /\ items[j].tag.t = "string"}}

\* lines 1021-1045, called with currentValue selected
updateTagFilter(currentValue) ==
    /\ renderedAll' = getAllItems(players', expandPackages')
    /\ filterTag' = IF currentValue \in tagOptions(renderedAll') THEN currentValue ELSE sAll

\* the characters that collate before the digits, in their order
Punctuation == <<" ", "-", "|">>

PositionIn(chars, c) ==
    IF \E i \in 1..Len(chars) : chars[i] = c
    THEN CHOOSE i \in 1..Len(chars) : chars[i] = c
    ELSE 0

\* the primary collation weight of a character: punctuation, then digits,
\* then letters, a letter weighing the same in either case
PrimaryWeight(c) ==
    IF PositionIn(LowerChars, c) # 0 THEN Len(Punctuation) + Len(DigitChars) + PositionIn(LowerChars, c)
    ELSE IF PositionIn(UpperChars, c) # 0 THEN Len(Punctuation) + Len(DigitChars) + PositionIn(UpperChars, c)
    ELSE IF PositionIn(DigitChars, c) # 0 THEN Len(Punctuation) + PositionIn(DigitChars, c)
    ELSE PositionIn(Punctuation, c)

\* a.localeCompare(b) for strings of letters, digits and the punctuation
\* above: the first difference of primary weight decides, a string that is
\* the beginning of the other comes first, and between strings that differ
\* in letter case only the first such letter decides, lower case first
localeCompare(a, b) ==
    LET common == IF Len(a) < Len(b) THEN Len(a) ELSE Len(b)
        primary == {i \in 1..common : PrimaryWeight(a[i]) # PrimaryWeight(b[i])}
        tertiary == {i \in 1..common : a[i] # b[i]}
    IN  IF primary # {}
        THEN IF PrimaryWeight(a[Min(primary)]) < PrimaryWeight(b[Min(primary)]) THEN -1 ELSE 1
        ELSE IF Len(a) # Len(b) THEN (IF Len(a) < Len(b) THEN -1 ELSE 1)
        ELSE IF tertiary # {}
        THEN IF PositionIn(LowerChars, a[Min(tertiary)]) # 0 THEN -1 ELSE 1
        ELSE 0

\* renderItemTable: rarityOrder[rarity] || 0, line 1099
rarityOrder(rarity) ==
    PositionIn(<<sCommon, sUncommon, sRare, sEpic, sLegendary, sMythic>>, rarity)

\* x || y of two numbers
OrElse(x, y) == IF x # 0 THEN x ELSE y

sortComparisonByKeyOnly(a, b, sortByValue, sortOrderValue, groupByValue) ==
    LET byName == localeCompare(a.item.name, b.item.name)
        comparison ==
            CASE sortByValue = "name" -> byName
              [] sortByValue = "tier" -> a.item.tier.n - b.item.tier.n
              [] sortByValue = "rarity" ->
                    rarityOrder(a.item.rarity) - rarityOrder(b.item.rarity)
              [] sortByValue = "count" -> a.count.n - b.count.n
              [] OTHER -> 0
    IN  IF sortOrderValue = "desc" THEN 0 - comparison ELSE comparison

\* lines 1101-1122: the comparator of items.sort, for tiers and counts that
\* are integers
sortComparison(a, b, sortByValue, sortOrderValue, groupByValue) ==
    LET byName == localeCompare(a.item.name, b.item.name)
        byTier == a.item.tier.n - b.item.tier.n
        comparison ==
            CASE sortByValue = "name" -> byName
              [] sortByValue = "tier" -> OrElse(byTier, byName)
              [] sortByValue = "rarity" ->
                    OrElse(rarityOrder(a.item.rarity) - rarityOrder(b.item.rarity), byName)
              [] sortByValue = "count" -> OrElse(a.count.n - b.count.n, byName)
              [] OTHER -> 0
        within == IF groupByValue = "baseItem" /\ sortByValue = "name"
                  THEN OrElse(byTier, byName)
                  ELSE comparison
    IN  IF sortOrderValue = "desc" THEN 0 - within ELSE within

\* items.sort(...): the items from position i on are put, one after the
\* other, behind the items of sorted that do not come after them
RECURSIVE sortFrom(_, _, _, _, _, _)
sortFrom(items, i, sorted, sortByValue, sortOrderValue, groupByValue) ==
    IF i > Len(items) THEN sorted
    ELSE LET ahead == {k \in 1..Len(sorted) :
                          sortComparison(sorted[k], items[i], sortByValue, sortOrderValue,
                                         groupByValue) <= 0}
             at == Cardinality(ahead)
         IN  sortFrom(items, i + 1,
                      SubSeq(sorted, 1, at) \o <<items[i]>> \o SubSeq(sorted, at + 1, Len(sorted)),
                      sortByValue, sortOrderValue, groupByValue)

\* lines 1092-1123: the rows of the table, in their order
renderItemTable(items, sortByValue, sortOrderValue, groupByValue) ==
    sortFrom(items, 1, <<>>, sortByValue, sortOrderValue, groupByValue)

\* lines 1157-1169: the key of the group an aggregated item is shown in
groupKey(a, groupByValue) ==
    CASE groupByValue = "tier" -> <<"T", "i", "e", "r", " ">> \o NumberToString(a.item.tier)
      [] groupByValue = "rarity" -> a.item.rarity
      [] groupByValue = "player" -> a.item.playerName
      [] groupByValue = "baseItem" ->
            IF a.item.baseItem # <<>> THEN a.item.baseItem ELSE a.item.name
      [] groupByValue = "tag" -> IF Truthy(a.item.tag) THEN a.item.tag.s ELSE sOther
      [] OTHER -> <<>>

\* lines 1155-1175: the groups in the order their keys were first met, each
\* with its items in their order
groupsOf(items, groupByValue) ==
    LET firsts == {k \in 1..Len(items) :
                      \A j \in 1..(k - 1) :
                          groupKey(items[j], groupByValue) # groupKey(items[k], groupByValue)}
        isFirst(k) == k \in firsts
        positions == SelectSeq([k \in 1..Len(items) |-> k], isFirst)
    IN  [g \in 1..Len(positions) |->
            LET key == groupKey(items[positions[g]], groupByValue)
                inGroup(a) == groupKey(a, groupByValue) = key
            IN  [name |-> key, tier |-> items[positions[g]].item.tier,
                 items |-> SelectSeq(items, inGroup)]]

\* lines 1178-1196: the comparator of sortedGroups.sort; a group of the
\* tier grouping holds items of one tier, which "Tier " and that tier's
\* digits name
groupComparison(a, b, groupByValue) ==
    CASE groupByValue = "tier" -> b.tier.n - a.tier.n
      [] groupByValue = "rarity" ->
            LET order == <<sMythic, sLegendary, sEpic, sRare, sUncommon, sCommon>>
            IN  (PositionIn(order, a.name) - 1) - (PositionIn(order, b.name) - 1)
      [] OTHER -> localeCompare(a.name, b.name)

RECURSIVE sortGroupsFrom(_, _, _, _)
sortGroupsFrom(groups, i, sorted, groupByValue) ==
    IF i > Len(groups) THEN sorted
    ELSE LET ahead == {k \in 1..Len(sorted) :
                          groupComparison(sorted[k], groups[i], groupByValue) <= 0}
             at == Cardinality(ahead)
         IN  sortGroupsFrom(groups, i + 1,
                            SubSeq(sorted, 1, at) \o <<groups[i]>>
                                \o SubSeq(sorted, at + 1, Len(sorted)),
                            groupByValue)

\* lines 1153-1213: the groups in their order, each with its table
renderGroupedItems(items, sortByValue, sortOrderValue, groupByValue) ==
    LET sortedGroups == sortGroupsFrom(groupsOf(items, groupByValue), 1, <<>>, groupByValue)
    IN  [g \in 1..Len(sortedGroups) |->
            [name |-> sortedGroups[g].name,
             rows |-> renderItemTable(sortedGroups[g].items, sortByValue, sortOrderValue,
                                      groupByValue)]]

\* lines 1083-1089: the one table of the ungrouped view, or the groups
inventoryPanel(aggregated, sortByValue, sortOrderValue, groupByValue) ==
    IF aggregated = <<>> THEN <<>>
    ELSE IF groupByValue = "none"
    THEN <<[name |-> <<>>,
            rows |-> renderItemTable(aggregated, sortByValue, sortOrderValue, groupByValue)]>>
    ELSE renderGroupedItems(aggregated, sortByValue, sortOrderValue, groupByValue)

\* lines 1069-1090
renderInventory ==
    /\ renderedFiltered' =
          IF Len(players') = 0 THEN <<>>
          ELSE getFilteredItems(players', expandPackages', filterTier', filterRarity',
                                filterTag', search')
    /\ renderedAggregated' =
          IF Len(players') = 0 THEN <<>>
          ELSE aggregateItems(renderedFiltered', groupBy')
    /\ inventoryContent' =
          inventoryPanel(renderedAggregated', sortBySelect', sortOrderSelect', groupBy')

\* lines 1013-1018, called in the state the handler has made, with tagValue
\* selected in the tag filter
render(tagValue) ==
    /\ updateTagFilter(tagValue)
    /\ renderInventory

\* an entry of the fetch log of a batch: kind is "info" (the player request was
\* issued), "noInfo" (it failed or named no player), "issued" (the inventory
\* request was issued), "settled" (it gave items) or "failed" (it threw); rest
\* is the number of players the loop had yet to reach
BatchEvent(entityId, kind, rest) == [entityId |-> entityId, kind |-> kind, rest |-> rest]

\* lines 196-201: loadPlayersFromUrl at the await of its first request
LoadRun(entityIds, pendingTagFilter) ==
    [op |-> "loadPlayersFromUrl", entityIds |-> entityIds, index |-> 1,
     stage |-> "info", entityId |-> entityIds[1], username |-> <<>>,
     detached |-> FALSE, pendingTagFilter |-> pendingTagFilter,
     log |-> <<BatchEvent(entityIds[1], "info", Len(entityIds) - 1)>>]

\* lines 817-819: refreshAll at the await of its first request; index counts
\* the entries of the map up to the one the loop is at, detached tells that
\* playerData is no longer the record the map holds
RefreshRun(playerMap) ==
    [op |-> "refreshAll", entityIds |-> <<>>, index |-> 1,
     stage |-> "inventory", entityId |-> playerMap[1].entityId, username |-> <<>>,
     detached |-> FALSE, pendingTagFilter |-> Null,
     log |-> <<BatchEvent(playerMap[1].entityId, "issued", Len(playerMap) - 1)>>]

\* the loop ends at the first request that fails
batchAdvanceStopOnFailure(run, kind, following) ==
    IF following = <<>> \/ kind = "failed"
    THEN [run EXCEPT !.stage = "done",
                     !.log = Append(@, BatchEvent(run.entityId, kind, Len(following)))]
    ELSE [run EXCEPT
            !.index = @ + 1,
            !.entityId = following[1],
            !.stage = IF run.op = "refreshAll" THEN "inventory" ELSE "info",
            !.detached = FALSE,
            !.log = @ \o <<BatchEvent(run.entityId, kind, Len(following)),
                           BatchEvent(following[1],
                                      IF run.op = "refreshAll" THEN "issued" ELSE "info",
                                      Len(following) - 1)>>]

\* lines 196-215, 817-824: the for loop of a batch from the moment the request
\* of its player ends as kind, the try / catch included, up to its next await
\* or its end; following are the players the loop has yet to reach
batchAdvance(run, kind, following) ==
    IF following = <<>>
    THEN [run EXCEPT !.stage = "done",
                     !.log = Append(@, BatchEvent(run.entityId, kind, 0))]
    ELSE [run EXCEPT
            !.index = @ + 1,
            !.entityId = following[1],
            !.stage = IF run.op = "refreshAll" THEN "inventory" ELSE "info",
            !.detached = FALSE,
            !.log = @ \o <<BatchEvent(run.entityId, kind, Len(following)),
                           BatchEvent(following[1],
                                      IF run.op = "refreshAll" THEN "issued" ELSE "info",
                                      Len(following) - 1)>>]

\* the entity ids of the entries of the map after the first index entries
playersAfter(playerMap, index) ==
    [p \in 1..(Len(playerMap) - index) |-> playerMap[index + p].entityId]

\* the place of entityId in the map, 0 if it holds no such key
playersIndexOf(playerMap, entityId) ==
    IF playersHas(playerMap, entityId)
    THEN CHOOSE p \in 1..Len(playerMap) : playerMap[p].entityId = entityId
    ELSE 0

\* this.players.delete(entityId), seen from the refreshAll calls that iterate
\* the map: the entry leaves the iteration, and a call that holds it as
\* playerData holds a record the map no longer has
batchesAfterDelete(runs, playerMap, entityId) ==
    [b \in 1..Len(runs) |->
        IF runs[b].op = "refreshAll" /\ runs[b].stage # "done"
           /\ playersHas(playerMap, entityId)
        THEN [runs[b] EXCEPT
                !.index = IF playersIndexOf(playerMap, entityId) <= @ THEN @ - 1 ELSE @,
                !.detached = @ \/ runs[b].entityId = entityId]
        ELSE runs[b]]

\* this.players.clear(), seen from the refreshAll calls that iterate the map
batchesAfterClear(runs) ==
    [b \in 1..Len(runs) |->
        IF runs[b].op = "refreshAll" /\ runs[b].stage # "done"
        THEN [runs[b] EXCEPT !.index = 0, !.detached = TRUE]
        ELSE runs[b]]

\* this.players.set(entityId, {...}), seen from the refreshAll calls: a call
\* that holds the record of entityId as playerData holds the replaced record
batchesAfterSet(runs, playerMap, entityId) ==
    [b \in 1..Len(runs) |->
        IF runs[b].op = "refreshAll" /\ runs[b].stage # "done"
           /\ playersHas(playerMap, entityId) /\ runs[b].entityId = entityId
        THEN [runs[b] EXCEPT !.detached = TRUE]
        ELSE runs[b]]

\* the fetched items are added to the list the record holds
playersSetItemsMerging(playerMap, entityId, items) ==
    [p \in 1..Len(playerMap) |->
        IF playerMap[p].entityId = entityId
        THEN [playerMap[p] EXCEPT !.items = @ \o items]
        ELSE playerMap[p]]

\* playerData.items = items (line 820) for the record the map holds of entityId
playersSetItems(playerMap, entityId, items) ==
    [p \in 1..Len(playerMap) |->
        IF playerMap[p].entityId = entityId
        THEN [playerMap[p] EXCEPT !.items = items]
        ELSE playerMap[p]]

\* lines 344-352: addPlayer up to the await of fetchPlayerInventory
AddPlayerStart ==
    \E entityId \in PlayerIds :
        /\ ~playersHas(players, entityId)
        /\ entityId \notin pending
        /\ Cardinality(pending) < MaxPending
        /\ pending' = pending \cup {entityId}
        /\ loading' = TRUE
        /\ UNCHANGED <<players, expandPackages, filterTier, filterRarity, filterTag,
                       search, groupBy, sortBySelect, sortOrderSelect, renderedAll, renderedFiltered, renderedAggregated, inventoryContent,
                       decodeVars, normalizeVars, marketSideVars, batchVars>>

\* lines 353-370: the addPlayer call for entityId goes on with the decoded
\* response of its inventory request
addPlayerResume(entityId, decoded) ==
        /\ pending' = pending \ {entityId}
        /\ loading' = FALSE
        /\ UNCHANGED <<expandPackages, filterTier, filterRarity, search, groupBy, sortBySelect, sortOrderSelect,
                       decodeVars, normalizeVars, marketSideVars>>
        /\ IF fetchPlayerInventory(decoded, itemDatabase, entityId).ok
           THEN /\ players' =
                      playersSet(players, entityId,
                                 [username |-> Usernames[entityId],
                                  items |-> fetchPlayerInventory(decoded, itemDatabase,
                                                                 entityId).items])
                /\ batches' = batchesAfterSet(batches, players, entityId)
                /\ render(filterTag)
           ELSE UNCHANGED <<players, filterTag, renderedAll, renderedFiltered,
                            renderedAggregated, inventoryContent, batches>>

\* lines 353-370: addPlayer from the moment fetchPlayerInventory settles
AddPlayerSettle ==
    \E entityId \in pending, decoded \in AddResponses : addPlayerResume(entityId, decoded)

\* lines 728-732
removePlayer ==
    \E entityId \in PlayerIds :
        /\ playersHas(players, entityId)
        /\ players' = playersDelete(players, entityId)
        /\ batches' = batchesAfterDelete(batches, players, entityId)
        /\ UNCHANGED <<expandPackages, filterTier, filterRarity, search, groupBy, sortBySelect, sortOrderSelect,
                       pending, loading, decodeVars, normalizeVars, marketSideVars>>
        /\ render(filterTag)

\* lines 1281-1288, when the user confirms
clearAll ==
    /\ Len(players) # 0
    /\ players' = <<>>
    /\ batches' = batchesAfterClear(batches)
    /\ UNCHANGED <<expandPackages, filterTier, filterRarity, search, groupBy, sortBySelect, sortOrderSelect,
                   pending, loading, decodeVars, normalizeVars, marketSideVars>>
    /\ render(filterTag)

\* lines 94-98: the change handler of the expand-packages checkbox
ChangeExpandPackages ==
    /\ expandPackages' = ~expandPackages
    /\ UNCHANGED <<players, filterTier, filterRarity, search, groupBy, sortBySelect, sortOrderSelect, pending,
                   loading, decodeVars, normalizeVars, marketSideVars, batchVars>>
    /\ render(filterTag)

\* line 87: the change handler of the group-by control
ChangeGroupBy ==
    \E value \in GroupBys \ {groupBy} :
        /\ groupBy' = value
        /\ UNCHANGED <<players, expandPackages, filterTier, filterRarity, search,
                       sortBySelect, sortOrderSelect, pending, loading, decodeVars, normalizeVars, marketSideVars, batchVars>>
        /\ render(filterTag)

\* line 88: the change handler of the tier filter
ChangeFilterTier ==
    \E value \in TierFilters \ {filterTier} :
        /\ filterTier' = value
        /\ UNCHANGED <<players, expandPackages, filterRarity, search, groupBy, sortBySelect, sortOrderSelect,
                       pending, loading, decodeVars, normalizeVars, marketSideVars, batchVars>>
        /\ render(filterTag)

\* line 89: the change handler of the rarity filter
ChangeFilterRarity ==
    \E value \in RarityFilters \ {filterRarity} :
        /\ filterRarity' = value
        /\ UNCHANGED <<players, expandPackages, filterTier, search, groupBy, sortBySelect, sortOrderSelect,
                       pending, loading, decodeVars, normalizeVars, marketSideVars, batchVars>>
        /\ render(filterTag)

\* line 90: the change handler of the tag filter; the user has picked one of
\* the dropdown's options
ChangeFilterTag ==
    \E value \in (tagOptions(renderedAll) \cup {sAll}) \ {filterTag} :
        /\ UNCHANGED <<players, expandPackages, filterTier, filterRarity, search,
                       groupBy, sortBySelect, sortOrderSelect, pending, loading, decodeVars, normalizeVars, marketSideVars, batchVars>>
        /\ render(value)

\* line 93: the input handler of the search box
InputItemSearch ==
    \E value \in Searches \ {search} :
        /\ search' = value
        /\ UNCHANGED <<players, expandPackages, filterTier, filterRarity, groupBy, sortBySelect, sortOrderSelect,
                       pending, loading, decodeVars, normalizeVars, marketSideVars, batchVars>>
        /\ render(filterTag)

\* lines 39-50: the viewer after its constructor and the first render, with
\* the item database not loaded
Init ==
    /\ MarketSideIdle
    /\ ViewerIdle
    /\ DecodeIdle
    /\ NormalizeIdle

Next ==
    \/ AddPlayerStart
    \/ AddPlayerSettle
    \/ removePlayer
    \/ clearAll
    \/ ChangeExpandPackages
    \/ ChangeGroupBy
    \/ ChangeFilterTier
    \/ ChangeFilterRarity
    \/ ChangeFilterTag
    \/ InputItemSearch

Spec == Init /\ [][Next]_vars

-----------------------------------------------------------------------------
(* The sort controls of the inventory view *)

\* the values of the sort-by and sort-order controls that renderItemTable
\* tells apart, and the groupings that are tried with them
SortBys == {"name", "tier", "rarity", "count"}
SortOrders == {"asc", "desc"}
TableGroupBys == {"none", "player", "baseItem"}

\* line 91: the change handler of the sort-by control
ChangeSortBy ==
    \E value \in SortBys \ {sortBySelect} :
        /\ sortBySelect' = value
        /\ UNCHANGED <<players, expandPackages, filterTier, filterRarity, search, groupBy,
                       sortOrderSelect, pending, loading, decodeVars, normalizeVars,
                       marketSideVars, batchVars>>
        /\ render(filterTag)

\* line 92: the change handler of the sort-order control
ChangeSortOrder ==
    \E value \in SortOrders \ {sortOrderSelect} :
        /\ sortOrderSelect' = value
        /\ UNCHANGED <<players, expandPackages, filterTier, filterRarity, search, groupBy,
                       sortBySelect, pending, loading, decodeVars, normalizeVars,
                       marketSideVars, batchVars>>
        /\ render(filterTag)

\* line 87, with the base-item grouping among the values
ChangeTableGroupBy ==
    \E value \in TableGroupBys \ {groupBy} :
        /\ groupBy' = value
        /\ UNCHANGED <<players, expandPackages, filterTier, filterRarity, search,
                       sortBySelect, sortOrderSelect, pending, loading, decodeVars,
                       normalizeVars, marketSideVars, batchVars>>
        /\ render(filterTag)

NextTable ==
    \/ AddPlayerStart
    \/ AddPlayerSettle
    \/ ChangeSortBy
    \/ ChangeSortOrder
    \/ ChangeTableGroupBy

SpecTable == Init /\ [][NextTable]_vars

-----------------------------------------------------------------------------
(* Batch operations: loadPlayersFromUrl and refreshAll *)

MaxBatches == 2

\* the players parameter of the page's URL, split (lines 190), and its
\* inv_type parameter (line 140); the URL carries no other setting
UrlPlayers == {<<>>, <<1, 2>>}
UrlTags == {Null, Str(sConstruction)}

\* the decoded body of a player request
PlayerInfo(username) ==
    [t |-> "object", player |-> [t |-> "object", username |-> username]]

\* what /players/<id>/__data.json can decode to; Null stands for a request
\* that fails or a body that does not decode, and player 2 has no username
InfoResponses(entityId) ==
    {Null, PlayerInfo(IF entityId = 2 THEN Undef ELSE Str(Usernames[entityId]))}

\* lines 217-230: the end of loadPlayersFromUrl
LoadFinish(pendingTagFilter) ==
    /\ loading' = FALSE
    /\ render(IF Truthy(pendingTagFilter) /\ pendingTagFilter.s \in tagOptions(renderedAll')
              THEN pendingTagFilter.s
              ELSE filterTag)

\* lines 198-207: the player request of a loadPlayersFromUrl call settles
LoadInfoSettle ==
    \E b \in DOMAIN batches :
      \E decoded \in InfoResponses(batches[b].entityId) :
        /\ batches[b].op = "loadPlayersFromUrl"
        /\ batches[b].stage = "info"
        /\ UNCHANGED <<players, expandPackages, filterTier, filterRarity, search, groupBy, sortBySelect, sortOrderSelect,
                       pending, decodeVars, normalizeVars, marketSideVars>>
        /\ IF Truthy(decoded) /\ Truthy(decoded.player)
           THEN /\ batches' =
                     [batches EXCEPT
                        ![b].stage = "inventory",
                        ![b].username =
                            JsOr(decoded.player.username,
                                 Str(sPlayerPrefix \o NatToString(batches[b].entityId))).s,
                        ![b].log =
                            Append(@, BatchEvent(batches[b].entityId, "issued",
                                                 Len(batches[b].entityIds)
                                                    - batches[b].index))]
                /\ UNCHANGED <<loading, filterTag, renderedAll, renderedFiltered,
                               renderedAggregated, inventoryContent>>
           ELSE /\ batches' =
                     [batches EXCEPT
                        ![b] = batchAdvance(@, "noInfo",
                                            SubSeq(@.entityIds, @.index + 1,
                                                   Len(@.entityIds)))]
                /\ IF batches'[b].stage = "done"
                   THEN LoadFinish(batches[b].pendingTagFilter)
                   ELSE UNCHANGED <<loading, filterTag, renderedAll, renderedFiltered,
                                    renderedAggregated, inventoryContent>>

\* lines 207-230: the inventory request of a loadPlayersFromUrl call settles
LoadInventorySettle ==
    \E b \in DOMAIN batches, decoded \in Responses :
        /\ batches[b].op = "loadPlayersFromUrl"
        /\ batches[b].stage = "inventory"
        /\ UNCHANGED <<expandPackages, filterTier, filterRarity, search, groupBy, sortBySelect, sortOrderSelect,
                       pending, decodeVars, normalizeVars, marketSideVars>>
        /\ IF fetchPlayerInventory(decoded, itemDatabase, batches[b].entityId).ok
           THEN /\ players' =
                     playersSet(players, batches[b].entityId,
                                [username |-> batches[b].username,
                                 items |-> fetchPlayerInventory(
                                               decoded, itemDatabase,
                                               batches[b].entityId).items])
                /\ batches' =
                     [batchesAfterSet(batches, players, batches[b].entityId) EXCEPT
                        ![b] = batchAdvance(@, "settled",
                                            SubSeq(@.entityIds, @.index + 1,
                                                   Len(@.entityIds)))]
           ELSE /\ players' = players
                /\ batches' =
                     [batches EXCEPT
                        ![b] = batchAdvance(@, "failed",
                                            SubSeq(@.entityIds, @.index + 1,
                                                   Len(@.entityIds)))]
        /\ IF batches'[b].stage = "done"
           THEN LoadFinish(batches[b].pendingTagFilter)
           ELSE UNCHANGED <<loading, filterTag, renderedAll, renderedFiltered,
                            renderedAggregated, inventoryContent>>

\* lines 812-819: refreshAll up to the await of its first request
RefreshAllStart ==
    /\ Len(players) # 0
    /\ Len(batches) < MaxBatches
    /\ batches' = Append(batches, RefreshRun(players))
    /\ loading' = TRUE
    /\ UNCHANGED <<players, expandPackages, filterTier, filterRarity, filterTag, search,
                   groupBy, sortBySelect, sortOrderSelect, pending, renderedAll, renderedFiltered, renderedAggregated, inventoryContent,
                   decodeVars, normalizeVars, marketSideVars>>

\* a refresh that would leave a player whose request failed with no items
refreshedPlayersEmptyingOnFailure(playerMap, run, decoded) ==
    IF run.detached
    THEN playerMap
    ELSE playersSetItems(playerMap, run.entityId,
                         fetchPlayerInventory(decoded, itemDatabase, run.entityId).items)

\* lines 818-823: the map after the try block of refreshAll for the response
\* decoded; the assignment is to the record the call holds, which the map
\* holds too unless it was detached
refreshedPlayers(playerMap, run, decoded) ==
    IF fetchPlayerInventory(decoded, itemDatabase, run.entityId).ok
       /\ ~run.detached
    THEN playersSetItems(playerMap, run.entityId,
                         fetchPlayerInventory(decoded, itemDatabase, run.entityId).items)
    ELSE playerMap

\* lines 817-827: the inventory request of a refreshAll call settles
RefreshInventorySettle ==
    \E b \in DOMAIN batches, decoded \in Responses :
        /\ batches[b].op = "refreshAll"
        /\ batches[b].stage = "inventory"
        /\ UNCHANGED <<expandPackages, filterTier, filterRarity, search, groupBy, sortBySelect, sortOrderSelect,
                       pending, decodeVars, normalizeVars, marketSideVars>>
        /\ players' = refreshedPlayers(players, batches[b], decoded)
        /\ batches' =
              [batches EXCEPT
                 ![b] = batchAdvance(
                            @,
                            IF fetchPlayerInventory(decoded, itemDatabase,
                                                    batches[b].entityId).ok
                            THEN "settled" ELSE "failed",
                            playersAfter(players, @.index))]
        /\ IF batches'[b].stage = "done"
           THEN /\ loading' = FALSE
                /\ render(filterTag)
           ELSE UNCHANGED <<loading, filterTag, renderedAll, renderedFiltered,
                            renderedAggregated, inventoryContent>>

\* lines 176-196: the page as the constructor leaves it, loadPlayersFromUrl at
\* its first await
InitBatch ==
    /\ DecodeIdle
    /\ NormalizeIdle
    /\ PlayerMarketIdle
    /\ MarketIdle
    /\ ProxyIdle
    /\ players = <<>>
    /\ expandPackages = TRUE
    /\ filterTier = sAll
    /\ filterRarity = sAll
    /\ filterTag = sAll
    /\ search = <<>>
    /\ groupBy = "none"
    /\ pending = {}
    /\ renderedAll = <<>>
    /\ renderedFiltered = <<>>
    /\ renderedAggregated = <<>>
    /\ sortBySelect = "name"
    /\ sortOrderSelect = "asc"
    /\ inventoryContent = <<>>
    /\ \E entityIds \in UrlPlayers, pendingTagFilter \in UrlTags :
          /\ batches = IF entityIds = <<>> THEN <<>>
                       ELSE <<LoadRun(entityIds, pendingTagFilter)>>
          /\ loading = (entityIds # <<>>)

NextBatch ==
    \/ LoadInfoSettle
    \/ LoadInventorySettle
    \/ RefreshAllStart
    \/ RefreshInventorySettle
    \/ removePlayer
    \/ clearAll

SpecBatch == InitBatch /\ [][NextBatch]_vars

\* the page opened from a URL, the user adding, removing and clearing players
\* while loadPlayersFromUrl runs and after it; refreshAll, whose loop over the
\* live map has no bound once players can be added during it, is left to
\* SpecBatch
NextSession ==
    \/ LoadInfoSettle
    \/ LoadInventorySettle
    \/ AddPlayerStart
    \/ AddPlayerSettle
    \/ removePlayer
    \/ clearAll

SpecSession == InitBatch /\ [][NextSession]_vars

-----------------------------------------------------------------------------
(* The player market view: PlayerMarketViewer and loadPlayerMarketData *)

\* parseInt(v) for a value: the integer a string begins with (parseInt(s)),
\* the integer part of a number, NaN for everything else
parseIntOf(v) ==
    CASE v.t = "string" -> parseInt(v.s)
      [] v.t = "number" /\ v.k = "int" -> v
      [] v.t = "number" /\ v.k = "-0" -> Num(0)
      [] v.t = "number" /\ v.k = "frac" ->
            IF v.n >= 0 THEN Num(v.n) ELSE IF v.n = -1 THEN NegZero ELSE Num(v.n + 1)
      [] OTHER -> NaN

\* a < b, for numbers a and b
LessThan(a, b) ==
    CASE a.k = "NaN" \/ b.k = "NaN" -> FALSE
      [] a.k = "Infinity" \/ b.k = "-Infinity" -> FALSE
      [] a.k = "-Infinity" \/ b.k = "Infinity" -> TRUE
      [] OTHER -> LET twice(x) == CASE x.k = "int" -> 2 * x.n
                                    [] x.k = "frac" -> 2 * x.n + 1
                                    [] OTHER -> 0
                  IN  twice(a) < twice(b)

\* a raw order of a market response; a field the order lacks reads as Undef
RawOrder(entityId, itemId, quantity, priceThreshold, ownerEntityId) ==
    [t |-> "object", entityId |-> entityId, itemId |-> itemId, itemName |-> Undef,
     itemTier |-> Undef, itemRarityStr |-> Undef, itemTag |-> Undef,
     quantity |-> quantity, priceThreshold |-> priceThreshold,
     ownerEntityId |-> ownerEntityId]

\* lines 1807-1822: the order parseSellOrders makes of a raw order (the claim
\* and region fields, which are copied as they are, are left out)
parsedSellOrder(order) ==
    [entityId |-> order.entityId,
     itemId |-> order.itemId,
     itemName |-> JsOr(order.itemName, Str(sUnknown)),
     itemTier |-> order.itemTier,
     itemRarity |-> JsOr(order.itemRarityStr, Str(sCommon)),
     itemTag |-> order.itemTag,
     quantity |-> JsOr(parseIntOf(order.quantity), Num(0)),
     price |-> JsOr(parseIntOf(order.priceThreshold), Num(0)),
     isCheapest |-> Null]

\* lines 1875-1889: the order parseBuyOrders makes of a raw order
parsedBuyOrder(order) ==
    [entityId |-> order.entityId,
     itemId |-> order.itemId,
     itemName |-> JsOr(order.itemName, Str(sUnknown)),
     itemTier |-> order.itemTier,
     itemRarity |-> JsOr(order.itemRarityStr, Str(sCommon)),
     itemTag |-> order.itemTag,
     quantity |-> JsOr(parseIntOf(order.quantity), Num(0)),
     price |-> JsOr(parseIntOf(order.priceThreshold), Num(0))]

\* the integers of a set in ascending order
RECURSIVE Ascending(_)
Ascending(S) ==
    IF S = {} THEN <<>> ELSE <<Min(S)>> \o Ascending(S \ {Min(S)})

\* lines 1830-1840: Object.keys(itemGroups), the item ids of the orders;
\* integer keys of an object are listed in ascending order
itemGroupKeys(orders) == Ascending({orders[k].itemId : k \in 1..Len(orders)})

\* lines 1849-1858: cheapestPrice and cheapestOwnerId after the orders of the
\* book from position i on
RECURSIVE cheapestFrom(_, _, _)
cheapestFrom(allSellOrders, i, cheapest) ==
    IF i > Len(allSellOrders) THEN cheapest
    ELSE IF LessThan(JsOr(parseIntOf(allSellOrders[i].priceThreshold), Num(0)),
                     cheapest.price)
         THEN cheapestFrom(allSellOrders, i + 1,
                           [price |-> JsOr(parseIntOf(allSellOrders[i].priceThreshold),
                                           Num(0)),
                            owner |-> allSellOrders[i].ownerEntityId])
         ELSE cheapestFrom(allSellOrders, i + 1, cheapest)

\* lines 1849-1858
cheapestOf(allSellOrders) ==
    cheapestFrom(allSellOrders, 1, [price |-> PosInfinity, owner |-> Null])

\* the flags when only the first order at the cheapest price is flagged
flagOrdersFirstTie(orders, itemId, allSellOrders) ==
    [k \in 1..Len(orders) |->
        IF orders[k].itemId = itemId
        THEN [orders[k] EXCEPT
                !.isCheapest =
                    Bool(/\ StrictEqualNumbers(orders[k].price,
                                               cheapestOf(allSellOrders).price)
                         /\ \A j \in 1..(k - 1) :
                               orders[j].itemId = itemId =>
                                   ~StrictEqualNumbers(orders[j].price, orders[k].price))]
        ELSE orders[k]]

\* lines 1859-1861: the orders after those of item itemId are flagged
flagOrders(orders, itemId, allSellOrders) ==
    [k \in 1..Len(orders) |->
        IF orders[k].itemId = itemId
        THEN [orders[k] EXCEPT
                !.isCheapest =
                    Bool(StrictEqualNumbers(orders[k].price,
                                            cheapestOf(allSellOrders).price))]
        ELSE orders[k]]

\* lines 1771-1776
updateCheapestCache(cache, itemId, cheapestPrice, cheapestPlayerId) ==
    [k \in DOMAIN cache \cup {itemId} |->
        IF k = itemId THEN [price |-> cheapestPrice, playerId |-> cheapestPlayerId]
        ELSE cache[k]]

\* lines 1807, 1875: value.map is a function; on any other value the call
\* sellOrders.map(...) throws a TypeError
HasMap(value) == value.t = "array"

\* lines 1806-1822
parseSellOrders(rawOrders) ==
    [k \in 1..Len(rawOrders) |-> parsedSellOrder(rawOrders[k])]

\* lines 1874-1890
parseBuyOrders(rawOrders) ==
    [k \in 1..Len(rawOrders) |-> parsedBuyOrder(rawOrders[k])]

\* lines 1828-1843: a call of calculateCheapestOrders at its first await; orders
\* are the order objects it grouped, keys the item ids it has yet to look up,
\* stage the request it waits for ("done" once it has rendered), and fetched
\* the order books it has flagged orders against
CheapestRun(orders) ==
    [orders |-> orders,
     keys |-> itemGroupKeys(orders),
     stage |-> IF itemGroupKeys(orders) = <<>> THEN "done" ELSE "item",
     fetched |-> <<>>]

\* the body of a player market response
PlayerMarket(playerId, playerUsername, rawSellOrders, rawBuyOrders) ==
    [t |-> "object", playerId |-> playerId, playerUsername |-> playerUsername,
     sellOrders |-> rawSellOrders, buyOrders |-> rawBuyOrders]

\* the body of an item's market response
MarketDetails(rawSellOrders) == [t |-> "object", sellOrders |-> rawSellOrders]

MaxLoads == 2
OtherSeller == Num(9)
\* what /api/market/player/<id> can answer: ok is response.ok, data the body;
\* player 2 also has bodies whose sellOrders or buyOrders is a string
PlayerMarketResponses(playerId) ==
    IF playerId = 1
    THEN {[ok |-> FALSE, data |-> Null],
          [ok |-> TRUE, data |-> Null],
          [ok |-> TRUE,
           data |-> PlayerMarket(Num(1), Str(Usernames[1]),
                        JArray(<<RawOrder(11, 2, Str(<<"3">>), Str(<<"7">>), Num(1)),
                                 RawOrder(12, 1, Num(4), Str(<<"5">>), Num(1)),
                                 RawOrder(13, 1, Str(<<"1">>), Num(5), Num(1))>>),
                        JArray(<<RawOrder(14, 2, Num(1), Num(3), Num(1))>>))]}
    ELSE {[ok |-> TRUE, data |-> PlayerMarket(Num(2), Str(Usernames[2]), Undef, Undef)],
          [ok |-> TRUE,
           data |-> PlayerMarket(Num(2), Str(Usernames[2]), Str(<<"n", "o", "n", "e">>),
                                 Undef)],
          [ok |-> TRUE,
           data |-> PlayerMarket(Num(2), Str(Usernames[2]),
                        JArray(<<RawOrder(21, 1, Num(2), Undef, Num(2))>>),
                        Str(<<"n", "o", "n", "e">>))],
          [ok |-> TRUE,
           data |-> PlayerMarket(Num(2), Str(Usernames[2]),
                        JArray(<<RawOrder(21, 1, Num(2), Undef, Num(2))>>),
                        JArray(<<>>))]}

\* what /api/market/item/<id> and /api/market/cargo/<id> can answer for item
\* itemId: the status and the body
MarketDetailsResponses(itemId) ==
    IF itemId = 1
    THEN {[status |-> 404, data |-> Null],
          [status |-> 500, data |-> Null],
          [status |-> 200,
           data |-> MarketDetails(
                        JArray(<<RawOrder(31, 1, Num(1), Str(<<"7">>), OtherSeller),
                                 RawOrder(12, 1, Num(4), Str(<<"5">>), Num(1)),
                                 RawOrder(13, 1, Num(1), Str(<<"5">>), Num(1)),
                                 RawOrder(32, 1, Num(1), Num(5), OtherSeller)>>))],
          [status |-> 200,
           data |-> MarketDetails(
                        JArray(<<RawOrder(33, 1, Num(1), Undef, OtherSeller),
                                 RawOrder(12, 1, Num(4), Str(<<"5">>), Num(1))>>))]}
    ELSE {[status |-> 404, data |-> Null],
          [status |-> 200, data |-> Null],
          [status |-> 200, data |-> MarketDetails(Undef)],
          [status |-> 200,
           data |-> MarketDetails(
                        JArray(<<RawOrder(11, 2, Num(3), Str(<<"7">>), Num(1)),
                                 RawOrder(34, 2, Num(1), Str(<<"3">>), OtherSeller)>>))]}

\* lines 2239-2241, 1778-1781: loadPlayerMarketData up to the await of the
\* player market request
LoadPlayerMarketData ==
    \E playerId \in PlayerIds :
        /\ Len(marketLoads) < MaxLoads
        /\ marketLoads' = Append(marketLoads, [playerId |-> playerId, state |-> "pending"])
        /\ loading' = TRUE
        /\ UNCHANGED <<selectedPlayer, sellOrders, buyOrders, cheapestCache, cheapestRuns,
                       players, expandPackages, filterTier, filterRarity, filterTag,
                       search, groupBy, sortBySelect, sortOrderSelect, pending, renderedAll, renderedFiltered,
                       renderedAggregated, inventoryContent, decodeVars, normalizeVars, batchVars, marketVars, proxyVars>>

\* lines 1783-1803, 1806-1843, 2243-2259: loadPlayerMarketData from the moment
\* the player market request settles; parseSellOrders starts
\* calculateCheapestOrders, which runs to its first await; a throw of
\* parseSellOrders or parseBuyOrders ends the call in the catch of line 2252
\* with the assignments before it made
FetchPlayerMarketDataSettle ==
    \E n \in DOMAIN marketLoads :
      \E response \in PlayerMarketResponses(marketLoads[n].playerId) :
        /\ marketLoads[n].state = "pending"
        /\ loading' = FALSE
        /\ UNCHANGED <<cheapestCache, players, expandPackages, filterTier, filterRarity,
                       filterTag, search, groupBy, sortBySelect, sortOrderSelect, pending, renderedAll,
                       renderedFiltered, renderedAggregated, inventoryContent, decodeVars, normalizeVars, batchVars, marketVars, proxyVars>>
        /\ IF response.ok /\ Truthy(response.data)
           THEN /\ selectedPlayer' = [id |-> response.data.playerId,
                                      username |-> response.data.playerUsername]
                /\ IF ~HasMap(JsOr(response.data.sellOrders, JArray(<<>>)))
                   THEN /\ marketLoads' = [marketLoads EXCEPT ![n].state = "failed"]
                        /\ UNCHANGED <<sellOrders, buyOrders, cheapestRuns>>
                   ELSE /\ sellOrders' =
                              parseSellOrders(
                                  JsOr(response.data.sellOrders, JArray(<<>>)).elems)
                        /\ cheapestRuns' = Append(cheapestRuns, CheapestRun(sellOrders'))
                        /\ IF ~HasMap(JsOr(response.data.buyOrders, JArray(<<>>)))
                           THEN /\ marketLoads' =
                                      [marketLoads EXCEPT ![n].state = "failed"]
                                /\ UNCHANGED buyOrders
                           ELSE /\ marketLoads' =
                                      [marketLoads EXCEPT ![n].state = "loaded"]
                                /\ buyOrders' =
                                      parseBuyOrders(
                                          JsOr(response.data.buyOrders,
                                               JArray(<<>>)).elems)
           ELSE /\ marketLoads' = [marketLoads EXCEPT ![n].state = "failed"]
                /\ UNCHANGED <<selectedPlayer, sellOrders, buyOrders, cheapestRuns>>

\* lines 1843-1871: run n of calculateCheapestOrders from the moment
\* fetchMarketDetailsForItem settles with response for the first of its keys;
\* the orders of the latest run are the orders of this.sellOrders
CheapestResolve(n, response) ==
    /\ UNCHANGED <<selectedPlayer, buyOrders, marketLoads, viewerVars, decodeVars,
                   normalizeVars, batchVars, marketVars, proxyVars>>
    /\ IF response.status = 200 /\ response.data # Null
       THEN /\ cheapestRuns' =
                  [cheapestRuns EXCEPT
                     ![n].orders =
                         flagOrders(@, Head(cheapestRuns[n].keys),
                                    JsOr(response.data.sellOrders, JArray(<<>>)).elems),
                     ![n].fetched =
                         Append(@, [itemId |-> Head(cheapestRuns[n].keys),
                                    allSellOrders |->
                                        JsOr(response.data.sellOrders, JArray(<<>>)).elems]),
                     ![n].keys = Tail(@),
                     ![n].stage = IF Len(cheapestRuns[n].keys) = 1 THEN "done" ELSE "item"]
            /\ cheapestCache' =
                  updateCheapestCache(
                      cheapestCache, Head(cheapestRuns[n].keys),
                      cheapestOf(JsOr(response.data.sellOrders, JArray(<<>>)).elems).price,
                      cheapestOf(JsOr(response.data.sellOrders, JArray(<<>>)).elems).owner)
       ELSE /\ cheapestRuns' =
                  [cheapestRuns EXCEPT
                     ![n].keys = Tail(@),
                     ![n].stage = IF Len(cheapestRuns[n].keys) = 1 THEN "done" ELSE "item"]
            /\ UNCHANGED cheapestCache
    /\ sellOrders' = IF n = Len(cheapestRuns) THEN cheapestRuns'[n].orders ELSE sellOrders

\* lines 1736-1742, 1749-1754: the request for /api/market/item/<id> settles
CheapestItemFetchSettle ==
    \E n \in DOMAIN cheapestRuns :
      \E response \in MarketDetailsResponses(Head(cheapestRuns[n].keys \o <<0>>)) :
        /\ cheapestRuns[n].stage = "item"
        /\ IF response.status = 404
           THEN /\ cheapestRuns' = [cheapestRuns EXCEPT ![n].stage = "cargo"]
                /\ UNCHANGED <<selectedPlayer, sellOrders, buyOrders, cheapestCache,
                               marketLoads, viewerVars, decodeVars, normalizeVars, batchVars, marketVars, proxyVars>>
           ELSE CheapestResolve(n, response)

\* lines 1742-1754: the request for /api/market/cargo/<id> settles
CheapestCargoFetchSettle ==
    \E n \in DOMAIN cheapestRuns :
      \E response \in MarketDetailsResponses(Head(cheapestRuns[n].keys \o <<0>>)) :
        /\ cheapestRuns[n].stage = "cargo"
        /\ CheapestResolve(n, response)

InitPlayerMarket ==
    /\ DecodeIdle
    /\ NormalizeIdle
    /\ ViewerIdle
    /\ MarketSideIdle

NextPlayerMarket ==
    \/ LoadPlayerMarketData
    \/ FetchPlayerMarketDataSettle
    \/ CheapestItemFetchSettle
    \/ CheapestCargoFetchSettle

SpecPlayerMarket == InitPlayerMarket /\ [][NextPlayerMarket]_vars

-----------------------------------------------------------------------------

(* The market view: MarketViewer and renderMarketTable *)

MaxPriceRuns == 2

\* line 1608
batchSize == 10

\* lines 1455-1475: an item as extractMarketItems makes it
MarketItem(id, name, tag, sellOrderCount) ==
    [id |-> id, name |-> name, tag |-> tag, sellOrders |-> sellOrderCount,
     price |-> Null, priceLoaded |-> FALSE]

\* what the market list request decodes to; the last item has no sell order
MarketList ==
    <<MarketItem(1, <<"a">>, "Ore", 4), MarketItem(2, <<"b">>, "Ore", 1),
      MarketItem(3, <<"c">>, "Ore", 2), MarketItem(4, <<"d">>, "Wood", 1),
      MarketItem(5, <<"e">>, "Wood", 3), MarketItem(6, <<"f">>, "Wood", 1),
      MarketItem(7, <<"g">>, "Wood", 0)>>

\* what fetchItemPrice (lines 1482-1572) gives for an item: the price of its
\* cheapest priced order, null if it has none or the request fails
PriceOf(itemId) == IF itemId = 1 THEN Null ELSE Num(10 * itemId)

MarketSearches == {<<>>, <<"B">>}

\* lines 1633-1657
excludedTags ==
    {"Seasonal", "Taming Items", "Writ", "Trader License", "Water",
     "Settlement Foundation Kit", "Sugar", "Salt", "Pitch", "Flint", "Empty Bucket",
     "Banking Kit", "Automata Heart", "Ancient Component", "Sap", "Tool Bundle",
     "Stick", "Hexite Capsule", "Construction Material", "Coins", "Food Waste",
     "Hex Coin Sack", "Schematic Fragments"}

\* lines 1631-1666
getAvailableTags(items) ==
    {items[k].tag : k \in 1..Len(items)} \ (excludedTags \cup {"", "Unknown"})

\* a.name.localeCompare(b.name) < 0, for names of one lower-case letter
NameBefore(a, b) ==
    \E i, j \in 1..Len(LowerChars) :
        /\ LowerChars[i] = a.name[1]
        /\ LowerChars[j] = b.name[1]
        /\ i < j

\* lines 1693-1712: filtered.sort by name in the order sortOrderValue
RECURSIVE marketSort(_, _)
marketSort(items, sortOrderValue) ==
    IF items = <<>> THEN <<>>
    ELSE LET first ==
                 CHOOSE k \in 1..Len(items) :
                    \A j \in 1..Len(items) :
                       j # k => IF sortOrderValue = "desc"
                                THEN NameBefore(items[j], items[k])
                                ELSE NameBefore(items[k], items[j])
         IN  <<items[first]>>
             \o marketSort([k \in 1..(Len(items) - 1) |->
                               IF k < first THEN items[k] ELSE items[k + 1]],
                           sortOrderValue)

\* lines 1668-1715: MarketViewer.getFilteredItems with selectedRarity 'all'
\* and sortBy 'name'
marketFilteredItems(items, tags, term, sortOrderValue) ==
    IF tags = {} THEN <<>>
    ELSE LET keep(item) ==
                 /\ item.tag \in tags
                 /\ Len(term) > 0 =>
                        Includes(ToLowerCase(item.name), ToLowerCase(term))
         IN  marketSort(SelectSeq(items, keep), sortOrderValue)

\* lines 1587-1590: the ids of the items that need a price
itemsNeedingPrices(items) ==
    LET needsPrice(item) == ~item.priceLoaded /\ item.sellOrders > 0
        needing == SelectSeq(items, needsPrice)
    IN  [k \in 1..Len(needing) |-> needing[k].id]

\* lines 1609-1611: the ids of the wave that starts after the first i items
waveOf(needing, i) ==
    {needing[k] : k \in (i + 1)..Min({i + batchSize, Len(needing)})}

\* lines 1607-1611: a call of loadPricesForVisibleItems at the await of its
\* first wave
PriceRun(needing) ==
    [items |-> needing, i |-> 0, outstanding |-> waveOf(needing, 0)]

\* the request counts after a request for each of ids is issued
requestsIssued(counts, ids) ==
    [k \in DOMAIN counts \cup ids |->
        (IF k \in DOMAIN counts THEN counts[k] ELSE 0) + (IF k \in ids THEN 1 ELSE 0)]

\* lines 2582-2675: renderMarketTable, called in the state the handler has
\* made, up to the await of the first wave of price requests
renderMarketTable ==
    /\ priceRuns' =
          IF itemsNeedingPrices(marketFilteredItems(marketItems', selectedTags',
                                                    searchTerm', sortOrder')) = <<>>
          THEN priceRuns
          ELSE Append(priceRuns,
                      PriceRun(itemsNeedingPrices(
                                   marketFilteredItems(marketItems', selectedTags',
                                                       searchTerm', sortOrder'))))
    /\ priceRequests' =
          IF Len(priceRuns') = Len(priceRuns) THEN priceRequests
          ELSE requestsIssued(priceRequests, priceRuns'[Len(priceRuns')].outstanding)

\* lines 2108-2202: renderMarketView from the moment the market list settles
FetchMarketDataSettle ==
    /\ marketItems = <<>>
    /\ marketItems' = MarketList
    /\ UNCHANGED <<selectedTags, searchTerm, sortOrder, decodeVars, normalizeVars,
                   viewerVars, playerMarketVars, batchVars, proxyVars>>
    /\ renderMarketTable

\* lines 2512-2524: a click on a tag pill
TagPillClick ==
    \E tag \in getAvailableTags(marketItems) :
        /\ Len(priceRuns) < MaxPriceRuns
        /\ selectedTags' = IF tag \in selectedTags THEN selectedTags \ {tag}
                           ELSE selectedTags \cup {tag}
        /\ UNCHANGED <<marketItems, searchTerm, sortOrder, decodeVars, normalizeVars,
                       viewerVars, playerMarketVars, batchVars, proxyVars>>
        /\ renderMarketTable

\* lines 2527-2538: a click on Select All
SelectAllTags ==
    /\ marketItems # <<>>
    /\ Len(priceRuns) < MaxPriceRuns
    /\ selectedTags' = selectedTags \cup getAvailableTags(marketItems)
    /\ UNCHANGED <<marketItems, searchTerm, sortOrder, decodeVars, normalizeVars,
                   viewerVars, playerMarketVars, batchVars, proxyVars>>
    /\ renderMarketTable

\* lines 2541-2551: a click on Clear All
ClearAllTags ==
    /\ marketItems # <<>>
    /\ Len(priceRuns) < MaxPriceRuns
    /\ selectedTags' = {}
    /\ UNCHANGED <<marketItems, searchTerm, sortOrder, decodeVars, normalizeVars,
                   viewerVars, playerMarketVars, batchVars, proxyVars>>
    /\ renderMarketTable

\* lines 2567-2572: a change of the sort order
ChangeMarketSortOrder ==
    \E value \in {"asc", "desc"} :
        /\ marketItems # <<>>
        /\ Len(priceRuns) < MaxPriceRuns
        /\ value # sortOrder
        /\ sortOrder' = value
        /\ UNCHANGED <<marketItems, selectedTags, searchTerm, decodeVars, normalizeVars,
                       viewerVars, playerMarketVars, batchVars, proxyVars>>
        /\ renderMarketTable

\* lines 2574-2579: input in the search box
InputMarketSearch ==
    \E value \in MarketSearches :
        /\ marketItems # <<>>
        /\ Len(priceRuns) < MaxPriceRuns
        /\ value # searchTerm
        /\ searchTerm' = value
        /\ UNCHANGED <<marketItems, selectedTags, sortOrder, decodeVars, normalizeVars,
                       viewerVars, playerMarketVars, batchVars, proxyVars>>
        /\ renderMarketTable

\* lines 1611-1627: the price request of item itemId of call r settles; when it
\* is the last of its wave the call issues its next wave
PriceFetchSettle ==
    \E r \in DOMAIN priceRuns :
      \E itemId \in priceRuns[r].outstanding :
        /\ marketItems' =
              [k \in 1..Len(marketItems) |->
                  IF marketItems[k].id = itemId
                  THEN [marketItems[k] EXCEPT !.price = PriceOf(itemId),
                                              !.priceLoaded = TRUE]
                  ELSE marketItems[k]]
        /\ IF priceRuns[r].outstanding = {itemId}
           THEN /\ priceRuns' =
                      [priceRuns EXCEPT
                         ![r].i = @ + batchSize,
                         ![r].outstanding =
                             waveOf(priceRuns[r].items, priceRuns[r].i + batchSize)]
                /\ priceRequests' =
                      requestsIssued(priceRequests, priceRuns'[r].outstanding)
           ELSE /\ priceRuns' = [priceRuns EXCEPT ![r].outstanding = @ \ {itemId}]
                /\ UNCHANGED priceRequests
        /\ UNCHANGED <<selectedTags, searchTerm, sortOrder, decodeVars, normalizeVars,
                       viewerVars, playerMarketVars, batchVars, proxyVars>>

InitMarket ==
    /\ DecodeIdle
    /\ NormalizeIdle
    /\ ViewerIdle
    /\ MarketSideIdle

NextMarket ==
    \/ FetchMarketDataSettle
    \/ TagPillClick
    \/ SelectAllTags
    \/ ClearAllTags
    \/ ChangeMarketSortOrder
    \/ InputMarketSearch
    \/ PriceFetchSettle

SpecMarket == InitMarket /\ [][NextMarket]_vars

-----------------------------------------------------------------------------

(* The CORS proxy: handleRequest of worker.js *)

\* a body text
Text(s) == [t |-> "text", s |-> s]

\* s.replace(pattern, replacement): the first occurrence of pattern is replaced
ReplaceFirst(s, pattern, replacement) ==
    LET at == {i \in 1..(Len(s) - Len(pattern) + 1) :
                  SubSeq(s, i, i + Len(pattern) - 1) = pattern}
    IN  IF at = {} THEN s
        ELSE SubSeq(s, 1, Min(at) - 1) \o replacement
             \o SubSeq(s, Min(at) + Len(pattern), Len(s))

sProxy == <<"/", "p", "r", "o", "x", "y", "/">>
sUpstreamRoot ==
    <<"h", "t", "t", "p", "s", ":", "/", "/", "b", "i", "t", "j", "i", "t", "a", ".",
      "c", "o", "m", "/">>

\* lines 23-24
targetUrl(pathname, searchPart) ==
    sUpstreamRoot \o ReplaceFirst(pathname, sProxy, <<>>) \o searchPart

\* the statuses a Response with a body cannot have
NullBodyStatuses == {101, 204, 205, 304}

\* new Response(body, {status, headers}): a status outside 200..599 and a body
\* with a null body status make the constructor throw
NewResponse(body, status, headers) ==
    IF status < 200 \/ status > 599
    THEN [threw |-> TRUE, message |-> "status out of range", response |-> Null]
    ELSE IF body # Null /\ status \in NullBodyStatuses
    THEN [threw |-> TRUE, message |-> "null body status cannot have a body",
          response |-> Null]
    ELSE [threw |-> FALSE, message |-> "",
          response |-> [status |-> status, body |-> body, headers |-> headers]]

\* lines 13-20
PreflightHeaders ==
    [name \in {"Access-Control-Allow-Origin", "Access-Control-Allow-Methods",
               "Access-Control-Allow-Headers"} |->
        CASE name = "Access-Control-Allow-Origin" -> "*"
          [] name = "Access-Control-Allow-Methods" -> "GET, OPTIONS"
          [] OTHER -> "Content-Type"]

\* lines 36-39, 44-47
RelayHeaders ==
    [name \in {"Content-Type", "Access-Control-Allow-Origin"} |->
        IF name = "Content-Type" THEN "application/json" ELSE "*"]

\* JSON.stringify({ error: message }), for a message that needs no escape
ErrorBody(message) == Text("{\"error\":\"" \o message \o "\"}")

\* lines 42-49: the catch block
proxyCatch(message) ==
    NewResponse(ErrorBody(message), 500, RelayHeaders)

\* lines 26-49: handleRequest from the moment the upstream fetch ends as
\* upstream; what it returns, or that it throws
proxyRelay(upstream) ==
    IF upstream.kind = "response"
    THEN IF NewResponse(upstream.body, upstream.status, RelayHeaders).threw
         THEN proxyCatch(NewResponse(upstream.body, upstream.status,
                                     RelayHeaders).message)
         ELSE NewResponse(upstream.body, upstream.status, RelayHeaders)
    ELSE proxyCatch(upstream.message)

ProxyMethods == {"GET", "POST", "OPTIONS"}
ProxyPathnames ==
    {sProxy \o <<"a", "p", "i">>,
     sProxy \o <<"a">> \o sProxy \o <<"b">>,
     <<"/", "a">>,
     sProxy}
ProxySearches == {<<>>, <<"?", "q", "=", "1">>}

\* how the upstream fetch can end: fetch rejects, reading the body rejects, or
\* a response with a status and a body text
UpstreamOutcomes ==
    {[kind |-> "fetchRejects", status |-> 0, body |-> Null, message |-> "network error"],
     [kind |-> "textRejects", status |-> 200, body |-> Null, message |-> "body error"]}
    \cup {[kind |-> "response", status |-> st, body |-> Text("{\"items\":[]}"),
           message |-> ""] : st \in {200, 404, 503}}
    \cup {[kind |-> "response", status |-> st, body |-> Text(""), message |-> ""] :
             st \in {200, 204, 304}}

\* lines 8-24: handleRequest up to the return of the preflight response or the
\* await of the upstream fetch
HandleRequestStart ==
    \E method \in ProxyMethods, pathname \in ProxyPathnames, searchPart \in ProxySearches :
        /\ proxyRequest = Null
        /\ proxyRequest' = [method |-> method, pathname |-> pathname,
                            search |-> searchPart]
        /\ IF method = "OPTIONS"
           THEN /\ proxyResponse' = NewResponse(Null, 200, PreflightHeaders)
                /\ proxyTarget' = <<>>
           ELSE /\ proxyResponse' = Null
                /\ proxyTarget' = targetUrl(pathname, searchPart)
        /\ UNCHANGED <<proxyUpstream, decodeVars, normalizeVars, viewerVars,
                       playerMarketVars, marketVars, batchVars>>

\* lines 26-49: the upstream fetch ends
UpstreamSettle ==
    \E upstream \in UpstreamOutcomes :
        /\ proxyTarget # <<>>
        /\ proxyUpstream = Null
        /\ proxyUpstream' = upstream
        /\ proxyResponse' = proxyRelay(upstream)
        /\ UNCHANGED <<proxyRequest, proxyTarget, decodeVars, normalizeVars, viewerVars,
                       playerMarketVars, marketVars, batchVars>>

InitProxy ==
    /\ DecodeIdle
    /\ NormalizeIdle
    /\ ViewerIdle
    /\ MarketSideIdle

NextProxy ==
    \/ HandleRequestStart
    \/ UpstreamSettle

SpecProxy == InitProxy /\ [][NextProxy]_vars

-----------------------------------------------------------------------------

(* Properties of decodeSvelteKitData *)

\* the references of slot i
RefsOf(i) == DataAt(data, i).refs

\* C1: decodeSvelteKitData terminates on every slots array, cyclic ones
\* included (every call of hydrate leads to the return of the decoder, and
\* then every array / object it allocated holds one element per reference);
\* wherever a slot refers to a root that is an array / object, the decoded
\* structure holds the root value itself
C1_TerminatesWithSelfReference ==
    /\ [](pc = "call" => <>(pc = "done"))
    /\ [](pc = "done" =>
            \A i \in DOMAIN heap :
                /\ Len(heap[i].elems) = Len(RefsOf(i))
                /\ \A p \in 1..Len(RefsOf(i)) :
                      (RefsOf(i)[p] = 0 /\ IsComposite(DataAt(data, 0)))
                          => (heap[i].elems[p] = Ref(0) /\ result = Ref(0)))

\* a decoded graph in which slot 1 refers back to the root
C1_Witness ==
    /\ pc = "done"
    /\ 1 \in DOMAIN heap
    /\ \E p \in 1..Len(RefsOf(1)) : RefsOf(1)[p] = 0 /\ heap[1].elems[p] = result
    /\ result = Ref(0)

\* every element stored for a reference to one of the indices S is that
\* index's fixed value, and hydrate consulted neither data nor the memo at an
\* index of T
SentinelsDecode(S, T) ==
    /\ \A i \in DOMAIN heap : \A p \in 1..Len(heap[i].elems) :
          LET ref == RefsOf(i)[p]
              value == heap[i].elems[p]
          IN  ref \in S =>
                /\ ref = -1 => value = Undef
                /\ ref = -3 => value = NaN
                /\ ref = -4 => value = PosInfinity
                /\ ref = -5 => value = NegInfinity
                /\ ref = -6 => value = NegZero
    /\ \A k \in 1..Len(dataReads) : dataReads[k] \notin T
    /\ \A k \in 1..Len(memoChecks) : memoChecks[k] \notin T

\* C2 (as amended): each of the five sentinel indices -1, -3, -4, -5, -6
\* decodes to its fixed value without consulting slots or the memo, wherever
\* the reference occurs and whatever slots contains
C2_FiveSentinels == SentinelsDecode(SentinelIndices, SentinelIndices)

\* C2 (as stated): the six reserved negative indices -1 .. -6 are decoded
\* without consulting slots or the memo
C2_SixSentinels == SentinelsDecode(SentinelIndices, NegativeIndices)

\* an object of slot 1 whose property is negative zero, under a root that
\* holds +Infinity
C2_Witness ==
    /\ pc = "done"
    /\ 1 \in DOMAIN heap
    /\ heap[1].kind = "object"
    /\ RefsOf(1) = <<-6>>
    /\ heap[1].elems = <<NegZero>>
    /\ \E p \in 1..Len(RefsOf(0)) : RefsOf(0)[p] = -4 /\ heap[0].elems[p] = PosInfinity

\* the slot types hydrate stores in the memo (lines 271-300)
MemoizedTypes == {"string", "boolean", "null", "number", "array", "object"}

\* what the first resolution of slot i yields: the slot itself for a string,
\* boolean, null or number, the one array / object allocated for it otherwise
Resolution(i) == IF IsComposite(DataAt(data, i)) THEN Ref(i) ELSE DataAt(data, i)

\* how many times index i occurs in a log
Occurrences(log, i) == Cardinality({k \in 1..Len(log) : log[k] = i})

\* C18: while one document is decoded, every reference to the same
\* non-negative index of a string, boolean, null, number, array or object slot
\* resolves to the same value: the memo holds the slot's first resolution and
\* never another one, every element stored for a reference to the slot is that
\* memoized value (also when the array / object is still being populated),
\* and data is read at most once at that index
C18_MemoizedResolution ==
    /\ \A i \in DOMAIN hydrated :
          DataAt(data, i).t \in MemoizedTypes => hydrated[i] = Resolution(i)
    /\ \A i \in DOMAIN heap : \A p \in 1..Len(heap[i].elems) :
          LET ref == RefsOf(i)[p]
          IN  (ref >= 0 /\ DataAt(data, ref).t \in MemoizedTypes)
                  => (ref \in DOMAIN hydrated /\ heap[i].elems[p] = hydrated[ref])
    /\ \A k \in 1..Len(dataReads) :
          DataAt(data, dataReads[k]).t \in MemoizedTypes
              => Occurrences(dataReads, dataReads[k]) = 1

\* a decoded document in which one slot was referred to again after its first
\* resolution (the memo was consulted for it more than once, data read once)
\* and a slot referred to an array / object that was still being populated
C18_Witness ==
    /\ pc = "done"
    /\ \E i \in DOMAIN hydrated :
          /\ Occurrences(memoChecks, i) >= 2
          /\ Occurrences(dataReads, i) = 1
    /\ \E i \in DOMAIN heap : \E p \in 1..Len(heap[i].elems) :
          /\ RefsOf(i)[p] = 0
          /\ i # 0
          /\ heap[i].elems[p] = Ref(0)

\* the document has a node with type "data" and a data array
HasDataArray(doc) ==
    /\ doc.t = "object"
    /\ "nodes" \in DOMAIN doc
    /\ doc.nodes.t = "array"
    /\ \E i \in 1..Len(doc.nodes.elems) :
          LET n == doc.nodes.elems[i]
          IN  /\ n.t = "object"
              /\ "type" \in DOMAIN n
              /\ n.type = "data"
              /\ n.data.t = "array"

\* C3: for a document that is absent, lacks a nodes sequence, has a
\* malformed nodes value or has no node with type "data" and a data array,
\* decodeSvelteKitData returns null and does not throw
C3_NullNeverThrows ==
    (pc # "start" /\ ~HasDataArray(json)) => (pc = "done" /\ result = Null)

-----------------------------------------------------------------------------
(* Properties of the normalisation pipeline *)

\* the name, rarity the probe's record carries
ProbeName == JsOr(probe.name, probe.itemName)
ProbeRarity == JsOr(probe.rarityStr, probe.rarity)

\* the probe sits in an ordinary container with an ordinary quantity
PlainPocket ==
    /\ probe.inventoryName = Str(sStorage)
    /\ probe.quantity.t = "number"
    /\ probe.quantity.k = "int"
    /\ probe.quantity.n >= 1

\* C4: every emitted item's tier is an integer in [-1, 8]
C4_TierInRange ==
    fetched.done =>
        \A i \in 1..Len(fetched.items) :
            LET tier == fetched.items[i].tier
            IN  /\ tier.t = "number"
                /\ tier.k \in {"int", "-0"}
                /\ -1 <= tier.n /\ tier.n <= 8

\* the quantity is a positive integer or an all-digit string
AcceptableQuantity(q) ==
    \/ q.t = "number" /\ q.k = "int" /\ q.n >= 1
    \/ q.t = "string" /\ Len(q.s) > 0
          /\ \A i \in 1..Len(q.s) : q.s[i] \in {DigitChars[d] : d \in 1..Len(DigitChars)}

\* C5: every emitted item's count is an integer >= 1, and a pocket whose
\* quantity is not a positive integer or an all-digit string is skipped
C5_CountPositiveInteger ==
    fetched.done =>
        /\ \A i \in 1..Len(fetched.items) :
              LET count == fetched.items[i].count
              IN  count.t = "number" /\ count.k = "int" /\ count.n >= 1
        /\ ~AcceptableQuantity(probe.quantity) => fetched.items = <<>>

\* name is word, a space, and anything
BeginsWithWord(name, word) ==
    /\ Len(name) > Len(word)
    /\ \A i \in 1..Len(word) : name[i] = word[i]
    /\ name[Len(word) + 1] = " "

HasSkipPrefix(name) == \E k \in 1..Len(skipPrefixes) : BeginsWithWord(name, skipPrefixes[k])

\* C6: a record whose name starts with a skip prefix and a space yields no
\* item, whatever its tier, rarity, tag and quantity; a record whose name
\* starts with no skip prefix is not discarded by the filter
C6_SkipPrefixFilter ==
    (fetched.done /\ ProbeName.t = "string" /\ Len(ProbeName.s) > 0) =>
        /\ HasSkipPrefix(ProbeName.s) => fetched.items = <<>>
        /\ (~HasSkipPrefix(ProbeName.s) /\ PlainPocket) =>
              (Len(fetched.items) = 1 /\ fetched.items[1].name = ProbeName.s)

\* the skill-rank record of the specification is dropped, a name that only
\* begins like a rank is kept
C6_Witness ==
    /\ fetched.done
    /\ \/ probe.name = Str(sNoviceSchematic) /\ fetched.items = <<>> /\ PlainPocket
       \/ /\ probe.name = Str(skipPrefixes[7] \o <<"S", "w", "o", "r", "d">>)
          /\ Len(fetched.items) = 1

\* the string holds a tier name, in any letter case
HoldsTierName(s) ==
    \E k \in 1..Len(tierMap) : Includes(ToLowerCase(s), ToLowerCase(tierMap[k].name))

HoldsDigit(s) == \E i \in 1..Len(s) : IsDigit(s[i])

\* missing, null, a boolean, a number outside [-1, 8], or a string with no
\* tier name and no embedded integer
UnknownTier(tier) ==
    \/ tier.t \in {"undefined", "null", "boolean"}
    \/ tier.t = "number" /\ ~NumberInRange(tier, -1, 8)
    \/ tier.t = "string" /\ ~HoldsTierName(tier.s) /\ ~HoldsDigit(tier.s)

\* C7: an unknown raw tier gives the tier derived from the name, a number
\* inside [-1, 8] is used as it is
C7_TierFallback ==
    (fetched.done /\ Len(fetched.items) = 1) =>
        /\ UnknownTier(probe.tier) =>
              fetched.items[1].tier = Num(deriveTierFromName(fetched.items[1].name))
        /\ (probe.tier.t = "number" /\ NumberInRange(probe.tier, -1, 8)) =>
              fetched.items[1].tier = probe.tier

\* tier 19998 of "Simple Clay Lump" gives tier 2
C7_Witness ==
    /\ fetched.done
    /\ probe.tier = Num(19998)
    /\ probe.name = Str(sSimpleClayLump)
    /\ Len(fetched.items) = 1
    /\ fetched.items[1].tier = Num(2)

\* the string as a comparison in any letter case / in exact letter case
\* reads it
Spelled(s, anyCase) == IF anyCase THEN ToLowerCase(s) ELSE s

\* the positions of the tier names the string holds
TierNamesHeld(s, anyCase) ==
    {k \in 1..Len(tierMap) : Includes(Spelled(s, anyCase), Spelled(tierMap[k].name, anyCase))}

\* a raw string tier that holds a tier name gives the item the integer of a
\* name it holds, whatever digits the string holds besides
TierNameResolves(anyCase) ==
    (/\ fetched.done
     /\ Len(fetched.items) = 1
     /\ probe.tier.t = "string"
     /\ TierNamesHeld(probe.tier.s, anyCase) # {}) =>
        \E k \in TierNamesHeld(probe.tier.s, anyCase) :
            fetched.items[1].tier = Num(tierMap[k].num)

\* C19: a raw string tier that contains a recognised tier name in any letter
\* case resolves to that name's integer, also when the string holds an
\* integer
C19_TierNameAnyCase == TierNameResolves(TRUE)

\* the same for a tier name spelled as in the table
C19_TierNameAsWritten == TierNameResolves(FALSE)

\* "T7 Basic" gave tier 1 and not 7
C19_NameBeforeInteger ==
    /\ fetched.done
    /\ probe.tier = Str(<<"T", "7", " ">> \o tierMap[2].name)
    /\ Len(fetched.items) = 1
    /\ fetched.items[1].tier = Num(1)

\* the position of the first entry of tierPrefixes, from entry i on, whose
\* prefix and a space the name starts with; 0 when there is none
RECURSIVE FirstPrefix(_, _)
FirstPrefix(name, i) ==
    IF i > Len(tierPrefixes) THEN 0
    ELSE IF StartsWith(name, tierPrefixes[i].prefix \o <<" ">>) THEN i
    ELSE FirstPrefix(name, i + 1)

\* the tier the name stands for: that of its first prefix, -1 without a
\* prefix when it holds "Hex Coin" or "Ancient Metal", and else 0
NameTier(name) ==
    LET first == FirstPrefix(name, 1)
    IN  IF first # 0 THEN tierPrefixes[first].tier
        ELSE IF Includes(name, sHexCoin) \/ Includes(name, sAncientMetal) THEN -1
        ELSE 0

\* C20: deriveTierFromName returns the tier of the first table prefix that
\* the name starts with followed by a space, without such a prefix -1 when
\* the name contains "Hex Coin" or "Ancient Metal" and 0 otherwise, always a
\* tier in [-1, 8]; an emitted item whose raw tier is missing has that tier
C20_DeriveTierFromName ==
    (fetched.done /\ ProbeName.t = "string") =>
        /\ deriveTierFromName(ProbeName.s) = NameTier(ProbeName.s)
        /\ deriveTierFromName(ProbeName.s) \in (-1)..8
        /\ (Len(fetched.items) = 1 /\ probe.tier = Undef) =>
              fetched.items[1].tier = Num(NameTier(ProbeName.s))

\* "Basic Hex Coin" without a raw tier was emitted with tier 1, its prefix
\* deciding before the special name
C20_Witness ==
    /\ fetched.done
    /\ probe.tier = Undef
    /\ ProbeName = Str(tierPrefixes[3].prefix \o <<" ">> \o sHexCoin)
    /\ Len(fetched.items) = 1
    /\ fetched.items[1].tier = Num(1)
    /\ deriveTierFromName(sHexCoin) = -1

\* the words of getBaseItemName's table / of deriveTierFromName's table that
\* the name starts with, followed by a space
BaseWordsMatching(name) ==
    {baseItemTierPrefixes[i] : i \in {j \in 1..Len(baseItemTierPrefixes) :
                                        StartsWith(name, baseItemTierPrefixes[j] \o <<" ">>)}}
TierWordsMatching(name) ==
    {tierPrefixes[i].prefix : i \in {j \in 1..Len(tierPrefixes) :
                                        StartsWith(name, tierPrefixes[j].prefix \o <<" ">>)}}

\* base is name without its first matching prefix of deriveTierFromName's
\* table and one space, name itself when no prefix of either table matches
StripsFirstPrefix(name, base) ==
    /\ BaseWordsMatching(name) = TierWordsMatching(name)
    /\ IF FirstPrefix(name, 1) = 0
       THEN base = name
       ELSE name = tierPrefixes[FirstPrefix(name, 1)].prefix \o <<" ">> \o base

\* C21: getBaseItemName and deriveTierFromName match the same prefix words:
\* for every name a word matches in one table if and only if it matches in
\* the other, and the base name is the name itself when none matches and
\* else what follows the first matching prefix and one space, whatever tier
\* the item was given
C21_SamePrefixWords ==
    (fetched.done /\ ProbeName.t = "string") =>
        /\ StripsFirstPrefix(ProbeName.s, getBaseItemName(ProbeName.s))
        /\ \A i \in 1..Len(fetched.items) :
              StripsFirstPrefix(fetched.items[i].name, fetched.items[i].baseItem)

\* "Zesty Hex Coin" with the raw tier 3 was emitted with the base name
\* "Hex Coin"
C21_Witness ==
    /\ fetched.done
    /\ Len(fetched.items) = 1
    /\ probe.tier = Num(3)
    /\ fetched.items[1].name = tierPrefixes[23].prefix \o <<" ">> \o sHexCoin
    /\ fetched.items[1].baseItem = sHexCoin
    /\ fetched.items[1].tier = Num(3)

\* the words that both normalizeTier's table and deriveTierFromName's table hold
SharedTierWords ==
    {tierMap[i].name : i \in 1..Len(tierMap)}
        \cap {tierPrefixes[j].prefix : j \in 1..Len(tierPrefixes)}

\* an item whose raw tier is one of the words in words, and whose name starts
\* with the same word, has the tier its name stands for
TierWordsAgree(words) ==
    (/\ fetched.done
     /\ Len(fetched.items) = 1
     /\ ProbeName.t = "string"
     /\ probe.tier.t = "string"
     /\ probe.tier.s \in words
     /\ StartsWith(ProbeName.s, probe.tier.s \o <<" ">>)) =>
        fetched.items[1].tier = Num(deriveTierFromName(ProbeName.s))

\* C27: the two tier tables agree: every word that both tables hold maps to
\* the same integer in both, so that an item has the same tier whether it is
\* resolved from the raw tier string or from the prefix of its name
C27_TierTablesAgree ==
    /\ \A i \in 1..Len(tierMap), j \in 1..Len(tierPrefixes) :
          tierMap[i].name = tierPrefixes[j].prefix =>
             tierMap[i].num = tierPrefixes[j].tier
    /\ TierWordsAgree(SharedTierWords)

\* the same for the shared words other than "Ornate"
TierTablesAgreeButOrnate ==
    /\ \A i \in 1..Len(tierMap), j \in 1..Len(tierPrefixes) :
          (tierMap[i].name = tierPrefixes[j].prefix /\ i # 7) =>
             tierMap[i].num = tierPrefixes[j].tier
    /\ TierWordsAgree(SharedTierWords \ {tierMap[7].name})

\* "Ornate Widget" with the raw tier "Ornate" was emitted with tier 6, and its
\* name stands for tier 7
OrnateDisagrees ==
    /\ fetched.done
    /\ probe.tier = Str(tierMap[7].name)
    /\ ProbeName = Str(tierMap[7].name \o <<" ">> \o sWidget)
    /\ Len(fetched.items) = 1
    /\ fetched.items[1].tier = Num(6)
    /\ deriveTierFromName(ProbeName.s) = 7

canonicalRarities == <<sCommon, sUncommon, sRare, sEpic, sLegendary, sMythic>>

\* the first canonical rarity name the string holds, the string itself when
\* it holds none
FirstCanonical(s) ==
    LET held == {k \in 1..Len(canonicalRarities) : Includes(s, canonicalRarities[k])}
    IN  IF held = {} THEN s ELSE canonicalRarities[Min(held)]

\* the emitted rarity is "Common" for a raw rarity among `common`, and else
\* the first canonical name the trimmed string holds, or the trimmed string
RarityIs(common) ==
    (fetched.done /\ Len(fetched.items) = 1) =>
        fetched.items[1].rarity =
            IF common THEN sCommon ELSE FirstCanonical(Trim(ProbeRarity.s))

\* C8 (as amended): "Common" for an absent, empty or non-string rarity
C8_Rarity == RarityIs(ProbeRarity.t # "string" \/ ProbeRarity.s = <<>>)

\* C8 (as stated): "Common" for an absent or non-string rarity
C8_RarityAsStated == RarityIs(ProbeRarity.t # "string")

\* "Tier 2 Common" gives "Common"
C8_Witness ==
    /\ fetched.done
    /\ probe.rarityStr = Str(sTier2Common)
    /\ Len(fetched.items) = 1
    /\ fetched.items[1].rarity = sCommon

-----------------------------------------------------------------------------
(* Properties of package expansion and the inventory view *)

\* the items of a list that package expansion made / did not make
IsSynthetic(i) == "fromPackage" \in DOMAIN i
IsOriginal(i) == ~IsSynthetic(i)

\* the name ends with " Package" and its tail is a suffix of the package table
InPackageTable(name) ==
    /\ EndsWith(name, sPackage)
    /\ \E e \in 1..Len(PACKAGE_CONTENTS) : EndsWith(name, PACKAGE_CONTENTS[e].suffix)

\* C9: with package expansion enabled, getAllItems emits exactly one
\* synthetic item for each item whose name ends with " Package" and whose
\* tail is in the package table, named as the package without its last 8
\* characters, counting the package's count times the table quantity and
\* marked fromPackage; it emits no synthetic item for any other item
C9_PackageExpansion ==
    expandPackages =>
        LET packaged(i) == IsOriginal(i) /\ InPackageTable(i.name)
            packages == SelectSeq(renderedAll, packaged)
            synthetic == SelectSeq(renderedAll, IsSynthetic)
        IN  /\ Len(synthetic) = Len(packages)
            /\ \A k \in 1..Len(packages) :
                  /\ synthetic[k].name = SubSeq(packages[k].name, 1, Len(packages[k].name) - 8)
                  /\ synthetic[k].fromPackage = TRUE
                  /\ synthetic[k].playerName = packages[k].playerName
                  /\ \E e \in 1..Len(PACKAGE_CONTENTS) :
                        /\ EndsWith(packages[k].name, PACKAGE_CONTENTS[e].suffix)
                        /\ synthetic[k].count.k = "int"
                        /\ synthetic[k].count.n =
                              packages[k].count.n * PACKAGE_CONTENTS[e].quantity

\* "Simple Clay Lump Package" x3 has been expanded to "Simple Clay Lump"
\* x1500 next to a package name the table does not hold
C9_Witness ==
    /\ expandPackages
    /\ \E k \in 1..Len(renderedAll) :
          /\ IsSynthetic(renderedAll[k])
          /\ renderedAll[k].name = sSimpleClayLump
          /\ renderedAll[k].count = Num(1500)
    /\ \E k \in 1..Len(renderedAll) : renderedAll[k].name = sRoughWoodLogPackage

\* the tag a synthetic item of the package pkg is to carry among the items
\* all: that of the last item that is no package and has exactly the base
\* name; without one, that of the first fragment of tagMappings the base name
\* holds, lower-cased and without its tier prefix; without one, the package's
ResolvedTag(pkg, all) ==
    LET base == SubSeq(pkg.name, 1, Len(pkg.name) - 8)
        observed == {j \in 1..Len(all) :
                        /\ IsOriginal(all[j])
                        /\ all[j].name = base
                        /\ ~EndsWith(all[j].name, sPackage)}
        first == FirstPrefix(base, 1)
        stripped == IF first = 0 THEN base
                    ELSE SubSeq(base, Len(tierPrefixes[first].prefix) + 2, Len(base))
        fragments == {i \in 1..Len(tagMappings) :
                         Includes(ToLowerCase(stripped), tagMappings[i].key)}
    IN  IF observed # {}
        THEN all[CHOOSE j \in observed : \A o \in observed : o <= j].tag
        ELSE IF fragments # {} THEN Str(tagMappings[Min(fragments)].tag)
        ELSE pkg.tag

\* C22: the tag of a synthetic package-expansion item is (a) the tag observed
\* for an item that is no package and has exactly the base name, if there is
\* one; else (b) the tag of the first inference-table fragment contained in
\* the lower-cased, prefix-stripped base name; else (c) the package's own tag
C22_SyntheticTag ==
    expandPackages =>
        LET packaged(i) == IsOriginal(i) /\ InPackageTable(i.name)
            packages == SelectSeq(renderedAll, packaged)
            synthetic == SelectSeq(renderedAll, IsSynthetic)
        IN  \A k \in 1..Len(synthetic) :
                /\ k <= Len(packages)
                /\ synthetic[k].tag = ResolvedTag(packages[k], renderedAll)

\* one view in which "Simple Clay Lump" from a package has the tag
\* Construction of the "Simple Clay Lump" next to it, and "Fine Ingot", of
\* which there is no item, has the inferred tag Smithing and not its
\* package's tag Other
C22_Witness ==
    /\ expandPackages
    /\ \E k \in 1..Len(renderedAll) :
          /\ IsSynthetic(renderedAll[k])
          /\ renderedAll[k].name = sSimpleClayLump
          /\ renderedAll[k].tag = Str(sConstruction)
    /\ \E k \in 1..Len(renderedAll) :
          /\ IsSynthetic(renderedAll[k])
          /\ renderedAll[k].name = SubSeq(sFineIngotPackage, 1, Len(sFineIngotPackage) - 8)
          /\ renderedAll[k].tag = Str(<<"S", "m", "i", "t", "h", "i", "n", "g">>)
    /\ \E k \in 1..Len(renderedAll) :
          /\ renderedAll[k].name = sFineIngotPackage
          /\ renderedAll[k].tag = Str(sOther)

\* no filter control restricts the list
FiltersInactive ==
    /\ filterTier = sAll
    /\ filterRarity = sAll
    /\ filterTag = sAll
    /\ Trim(ToLowerCase(search)) = <<>>

\* C10: when package expansion is active, an original item is excluded from
\* the filtered set exactly when it is a package, and every excluded original
\* is represented in that set by its synthetic expansion; when expansion is
\* inactive no item is excluded and no synthetic item is present
C10_PackagesReplaced ==
    (FiltersInactive /\ Len(players) > 0) =>
        LET remains(i) == \E k \in 1..Len(renderedFiltered) : renderedFiltered[k] = i
            represented(i) ==
                \E k \in 1..Len(renderedFiltered) :
                    /\ IsSynthetic(renderedFiltered[k])
                    /\ renderedFiltered[k].name = SubSeq(i.name, 1, Len(i.name) - 8)
                    /\ renderedFiltered[k].playerId = i.playerId
                    /\ renderedFiltered[k].location = i.location
            originals == collectAllItems(players)
        IN  IF expandPackages
            THEN \A j \in 1..Len(originals) :
                    /\ ~remains(originals[j]) <=> getPackageInfo(originals[j].name).isPackage
                    /\ ~remains(originals[j]) => represented(originals[j])
            ELSE /\ \A j \in 1..Len(originals) : remains(originals[j])
                 /\ \A k \in 1..Len(renderedFiltered) : IsOriginal(renderedFiltered[k])

-----------------------------------------------------------------------------
(* Properties of aggregation and filtering *)

\* the sum of a sequence of integers
RECURSIVE SumSeq(_)
SumSeq(s) == IF s = <<>> THEN 0 ELSE Head(s) + SumSeq(Tail(s))

\* the counts of a list of items, as integers
CountsOf(items) == [k \in 1..Len(items) |-> items[k].count.n]

\* the filtered items that were merged into the aggregated item a
MergedInto(a) ==
    LET sameKey(i) == aggregateKey(i, groupBy) = aggregateKey(a.item, groupBy)
    IN  SelectSeq(renderedFiltered, sameKey)

\* the items of a list that the player called playerName contributed
ContributedBy(items, playerName) ==
    LET hers(i) == i.playerName = playerName
    IN  SelectSeq(items, hers)

\* C11: each aggregated item's count is the sum of the counts of the items
\* merged into it, its playerQuantities maps each contributing player's
\* display name (and no other) to the sum of that player's merged counts, so
\* the count is the sum of the playerQuantities values, and the aggregated
\* counts add up to the total of the input counts
C11_AggregateSums ==
    /\ \A x \in 1..Len(renderedAggregated) :
          LET a == renderedAggregated[x]
              quantities == a.playerQuantities
          IN  /\ a.count = Num(SumSeq(CountsOf(MergedInto(a))))
              /\ \A q \in 1..Len(quantities) :
                    /\ quantities[q].quantity =
                          Num(SumSeq(CountsOf(ContributedBy(MergedInto(a),
                                                            quantities[q].playerName))))
                    /\ ContributedBy(MergedInto(a), quantities[q].playerName) # <<>>
                    /\ \A r \in 1..Len(quantities) :
                          quantities[r].playerName = quantities[q].playerName => r = q
              /\ \A k \in 1..Len(renderedFiltered) :
                    aggregateKey(renderedFiltered[k], groupBy) = aggregateKey(a.item, groupBy)
                        => \E q \in 1..Len(quantities) :
                              quantities[q].playerName = renderedFiltered[k].playerName
              /\ a.count.n = SumSeq([q \in 1..Len(quantities) |-> quantities[q].quantity.n])
    /\ SumSeq([x \in 1..Len(renderedAggregated) |-> renderedAggregated[x].count.n])
          = SumSeq(CountsOf(renderedFiltered))

\* "Simple Clay Lump" x2 of Ann and x7 of Bob, packages not expanded, are
\* shown as one item of count 9 with quantities Ann: 2, Bob: 7
C11_Witness ==
    /\ groupBy = "none"
    /\ \E x \in 1..Len(renderedAggregated) :
          /\ renderedAggregated[x].item.name = sSimpleClayLump
          /\ renderedAggregated[x].count = Num(9)
          /\ renderedAggregated[x].playerQuantities =
                <<[playerName |-> Usernames[1], quantity |-> Num(2)],
                  [playerName |-> Usernames[2], quantity |-> Num(7)]>>

\* the components items are to be merged by
MergeKey(i) ==
    IF groupBy = "player" THEN <<i.name, i.tier, i.rarity, i.playerName>>
    ELSE <<i.name, i.tier, i.rarity>>

\* C23: aggregateItems merges two items if and only if they have equal
\* (name, tier, rarity), with playerName added when grouping by player: the
\* aggregated items have pairwise different keys, and each counts exactly the
\* filtered items of its key
C23_MergedIffEqualKey ==
    /\ \A x, y \in 1..Len(renderedAggregated) :
          MergeKey(renderedAggregated[x].item) = MergeKey(renderedAggregated[y].item) => x = y
    /\ \A x \in 1..Len(renderedAggregated) :
          LET sameKey(i) == MergeKey(i) = MergeKey(renderedAggregated[x].item)
          IN  renderedAggregated[x].count.n = SumSeq(CountsOf(SelectSeq(renderedFiltered, sameKey)))
    /\ \A k \in 1..Len(renderedFiltered) :
          \E x \in 1..Len(renderedAggregated) :
              MergeKey(renderedAggregated[x].item) = MergeKey(renderedFiltered[k])

\* the item passes the tier, rarity and tag filters that are set, and its
\* name holds term in any letter case when term is not empty
PassesFilters(i, term) ==
    /\ filterTier # sAll => i.tier = Num(DecimalValue(filterTier))
    /\ filterRarity # sAll => i.rarity = filterRarity
    /\ filterTag # sAll => i.tag = Str(filterTag)
    /\ term # <<>> => Includes(ToLowerCase(i.name), ToLowerCase(term))

\* the flat list the filters are applied to: all items, without the names
\* that end with " Package" when packages are expanded
FilterCandidates ==
    LET shown(i) == expandPackages => ~EndsWith(i.name, sPackage)
    IN  SelectSeq(renderedAll, shown)

\* the filtered list is the candidates that pass the filters with the search
\* term given, in their order; the aggregated items are made of them alone
\* and a tier filter leaves no item of another tier
FilteredBy(term) ==
    Len(players) > 0 =>
        LET passes(i) == PassesFilters(i, term)
        IN  /\ renderedFiltered = SelectSeq(FilterCandidates, passes)
            /\ \A x \in 1..Len(renderedAggregated) :
                  /\ passes(renderedAggregated[x].item)
                  /\ MergedInto(renderedAggregated[x]) # <<>>
            /\ Len(renderedAggregated) <= Len(renderedFiltered)
            /\ filterTier # sAll =>
                  \A k \in 1..Len(renderedFiltered) :
                      renderedFiltered[k].tier.n = DecimalValue(filterTier)

\* C12 (as amended): getFilteredItems keeps an item if and only if it passes
\* every active filter, the search text being trimmed of surrounding white
\* space before names are searched for it (a search text of white space
\* alone is no filter); filtering comes before aggregation, and a tier filter
\* keeps no item of another tier, tiers derived from the name included
C12_FiltersCompose == FilteredBy(Trim(search))

\* C12 (as stated): an item is kept if and only if it passes every active
\* filter, the name containing the search text in any letter case
C12_FiltersAsStated == FilteredBy(search)

\* the tier filter 2 and the search text "LUMP " keep Bob's "Simple Clay
\* Lump", whose tier 2 was derived from its name, and drop his tier 3 "Widget"
C12_Witness ==
    /\ filterTier = <<"2">>
    /\ search = <<"L", "U", "M", "P", " ">>
    /\ \E k \in 1..Len(renderedFiltered) :
          /\ renderedFiltered[k].name = sSimpleClayLump
          /\ renderedFiltered[k].playerName = Usernames[2]
          /\ renderedFiltered[k].count = Num(7)
    /\ \E k \in 1..Len(renderedAll) : renderedAll[k].name = sWidget
    /\ \A k \in 1..Len(renderedFiltered) : renderedFiltered[k].name # sWidget

-----------------------------------------------------------------------------
(* Properties of the sorted table *)

\* how the rows a and b differ in the sort key: negative when a is the lesser
KeyDifference(a, b, key) ==
    CASE key = "name" -> localeCompare(a.item.name, b.item.name)
      [] key = "tier" -> a.item.tier.n - b.item.tier.n
      [] key = "rarity" -> rarityOrder(a.item.rarity) - rarityOrder(b.item.rarity)
      [] key = "count" -> a.count.n - b.count.n

\* row a may stand right before row b: they are in the chosen direction by
\* the key or, with equal keys, by name
InOrder(a, b, key) ==
    LET byKey == KeyDifference(a, b, key)
        byName == localeCompare(a.item.name, b.item.name)
        difference == IF byKey # 0 THEN byKey ELSE byName
    IN  IF sortOrderSelect = "desc" THEN difference >= 0 ELSE difference <= 0

\* every table of the panel holds its rows in the order of the active key,
\* which within the groups of the base-item grouping is the tier instead of
\* the name when tierWithinBaseItem; the tables hold the aggregated items
TableOrdered(tierWithinBaseItem) ==
    LET key == IF tierWithinBaseItem /\ groupBy = "baseItem" /\ sortBySelect = "name"
               THEN "tier" ELSE sortBySelect
    IN  /\ \A g \in 1..Len(inventoryContent) :
              \A i \in 1..(Len(inventoryContent[g].rows) - 1) :
                  InOrder(inventoryContent[g].rows[i], inventoryContent[g].rows[i + 1], key)
        /\ SumSeq([g \in 1..Len(inventoryContent) |-> Len(inventoryContent[g].rows)])
              = Len(renderedAggregated)

\* C24 (as amended): renderItemTable orders the aggregated items by the one
\* active key (name, tier, rarity severity, count) in the chosen direction,
\* items with equal tier, rarity or count by name in that same direction;
\* within the groups of the base-item grouping a sort by name orders by tier
\* first and by name among equal tiers
C24_SortedByActiveKey == TableOrdered(TRUE)

\* C24 (as stated): the order is that of the active key under every grouping
C24_SortedAsStated == TableOrdered(FALSE)

\* sorted by tier, descending: "Widget" and "Fine Ingot", both of tier 3,
\* stand in descending order of name
C24_Witness ==
    /\ sortBySelect = "tier"
    /\ sortOrderSelect = "desc"
    /\ groupBy = "none"
    /\ Len(inventoryContent) = 1
    /\ \E i \in 1..(Len(inventoryContent[1].rows) - 1) :
          /\ inventoryContent[1].rows[i].item.name = sWidget
          /\ inventoryContent[1].rows[i + 1].item.name
                = SubSeq(sFineIngotPackage, 1, Len(sFineIngotPackage) - 8)
          /\ inventoryContent[1].rows[i].item.tier = inventoryContent[1].rows[i + 1].item.tier

-----------------------------------------------------------------------------
(* Properties of the player market view *)

\* the price an order of an order book lists, as the code reads it
ListedPrice(rawOrder) == JsOr(parseIntOf(rawOrder.priceThreshold), Num(0))

\* price is the minimum of the prices the order book lists
IsMinimumListed(price, allSellOrders) ==
    /\ \E k \in DOMAIN allSellOrders :
          StrictEqualNumbers(price, ListedPrice(allSellOrders[k]))
    /\ \A k \in DOMAIN allSellOrders : ~LessThan(ListedPrice(allSellOrders[k]), price)

\* C13: once calculateCheapestOrders has fetched the order book of an item,
\* each sell order of that item it grouped has isCheapest = true if and only
\* if its price equals the minimum price listed in that book, and false
\* otherwise, so every order tied at the minimum is flagged; the orders of the
\* latest calculation are the selected player's current sell orders
C13_CheapestIffMinimum ==
    /\ \A n \in DOMAIN cheapestRuns :
          \A f \in DOMAIN cheapestRuns[n].fetched :
             \A k \in DOMAIN cheapestRuns[n].orders :
                cheapestRuns[n].orders[k].itemId = cheapestRuns[n].fetched[f].itemId =>
                    cheapestRuns[n].orders[k].isCheapest =
                        Bool(IsMinimumListed(cheapestRuns[n].orders[k].price,
                                             cheapestRuns[n].fetched[f].allSellOrders))
    /\ cheapestRuns # <<>> => sellOrders = cheapestRuns[Len(cheapestRuns)].orders

\* two of the selected player's orders tied with another seller's at the
\* minimum of a fetched book are both flagged, a dearer one is not
C13_Witness ==
    /\ cheapestRuns # <<>>
    /\ cheapestRuns[Len(cheapestRuns)].fetched # <<>>
    /\ \E j, k \in DOMAIN sellOrders :
          /\ j # k
          /\ sellOrders[j].itemId = 1 /\ sellOrders[k].itemId = 1
          /\ sellOrders[j].price = Num(5) /\ sellOrders[k].price = Num(5)
          /\ sellOrders[j].isCheapest = Bool(TRUE)
          /\ sellOrders[k].isCheapest = Bool(TRUE)
    /\ \E f \in DOMAIN cheapestRuns[Len(cheapestRuns)].fetched :
          /\ cheapestRuns[Len(cheapestRuns)].fetched[f].itemId = 1
          /\ \E b \in DOMAIN cheapestRuns[Len(cheapestRuns)].fetched[f].allSellOrders :
                /\ cheapestRuns[Len(cheapestRuns)].fetched[f].allSellOrders[b].ownerEntityId
                      = OtherSeller
                /\ ListedPrice(cheapestRuns[Len(cheapestRuns)].fetched[f].allSellOrders[b])
                      = Num(5)
    /\ \E k \in DOMAIN sellOrders : sellOrders[k].isCheapest = Bool(FALSE)

-----------------------------------------------------------------------------
(* Properties of the batch operations *)

InventoryEnd == {"settled", "failed"}

\* C14: in every loadPlayersFromUrl and refreshAll call the inventory requests
\* are issued one at a time, each only after the one before it has settled or
\* failed, at most one is outstanding, and a failed request of a player that is
\* not the last is followed at once by the first request of the next player
C14_OneAtATimeAndFailureIsolated ==
    \A b \in DOMAIN batches :
       /\ \A i, j \in DOMAIN batches[b].log :
             (i < j /\ batches[b].log[i].kind = "issued"
                    /\ batches[b].log[j].kind = "issued") =>
                 \E k \in (i + 1)..(j - 1) :
                    /\ batches[b].log[k].kind \in InventoryEnd
                    /\ batches[b].log[k].entityId = batches[b].log[i].entityId
       /\ \A i \in DOMAIN batches[b].log :
             batches[b].log[i].kind \in InventoryEnd =>
                 /\ i > 1
                 /\ batches[b].log[i - 1].kind = "issued"
                 /\ batches[b].log[i - 1].entityId = batches[b].log[i].entityId
       /\ \A i \in DOMAIN batches[b].log :
             (batches[b].log[i].kind = "failed" /\ batches[b].log[i].rest > 0) =>
                 /\ i < Len(batches[b].log)
                 /\ batches[b].log[i + 1].kind =
                       (IF batches[b].op = "refreshAll" THEN "issued" ELSE "info")
                 /\ batches[b].log[i + 1].rest = batches[b].log[i].rest - 1

\* a refreshAll call has seen the request of one player fail and has then
\* issued and settled the request of the next
C14_Witness ==
    \E b \in DOMAIN batches :
       /\ batches[b].op = "refreshAll"
       /\ \E i \in DOMAIN batches[b].log :
             /\ batches[b].log[i].kind = "failed"
             /\ i + 2 <= Len(batches[b].log)
             /\ batches[b].log[i + 1].kind = "issued"
             /\ batches[b].log[i + 1].entityId # batches[b].log[i].entityId
             /\ batches[b].log[i + 2].kind = "settled"

\* the list the map holds for entityId
StoredItems(playerMap, entityId) ==
    playerMap[playersIndexOf(playerMap, entityId)].items

\* the step is the settling of an inventory request for entityId that gave a
\* list of items
FetchedFor(entityId) ==
    \E b \in DOMAIN batches :
       /\ batches[b].stage = "inventory"
       /\ batches[b].entityId = entityId
       /\ Len(batches'[b].log) > Len(batches[b].log)
       /\ batches'[b].log[Len(batches[b].log) + 1].kind = "settled"

Unflagged(orders) ==
    [k \in 1..Len(orders) |-> [orders[k] EXCEPT !.isCheapest = Null]]

\* selectedPlayer, sellOrders and buyOrders are what the response body gives
FromResponse(body) ==
    /\ selectedPlayer = [id |-> body.playerId, username |-> body.playerUsername]
    /\ HasMap(JsOr(body.sellOrders, JArray(<<>>)))
    /\ Unflagged(sellOrders) =
          parseSellOrders(JsOr(body.sellOrders, JArray(<<>>)).elems)
    /\ HasMap(JsOr(body.buyOrders, JArray(<<>>)))
    /\ buyOrders = parseBuyOrders(JsOr(body.buyOrders, JArray(<<>>)).elems)

\* the three fields are as the constructor left them, or all three are from
\* one player market response
FromOneResponse ==
    \/ selectedPlayer = Null /\ sellOrders = <<>> /\ buyOrders = <<>>
    \/ \E playerId \in PlayerIds :
          \E response \in PlayerMarketResponses(playerId) :
             response.ok /\ Truthy(response.data) /\ FromResponse(response.data)

\* a step of a calculation that is not the latest one started leaves the
\* current sellOrders list, flags included, as it was
StaleRunsLeaveFlags ==
    \A n \in DOMAIN cheapestRuns :
       (/\ n < Len(cheapestRuns)
        /\ Len(cheapestRuns') = Len(cheapestRuns)
        /\ cheapestRuns'[n] # cheapestRuns[n]) => sellOrders' = sellOrders

\* C30: whenever the event loop can run another handler, selectedPlayer,
\* sellOrders and buyOrders all come from one and the same player market
\* response, in whatever order the responses of the loadPlayerMarketData calls
\* in flight and of the calculations they start arrive; and a calculation
\* started for an earlier response never changes a flag of the current
\* sellOrders list
C30_OneResponseAtATime == []FromOneResponse /\ [][StaleRunsLeaveFlags]_vars

\* the second half alone
StaleRunsNeverFlag == [][StaleRunsLeaveFlags]_vars

\* a loadPlayerMarketData call that ends without an error leaves the three
\* fields from its own response, whatever other calls are in flight
LoadedFromOwnResponse ==
    [][\A n \in DOMAIN marketLoads :
          (marketLoads[n].state = "pending" /\ marketLoads'[n].state = "loaded") =>
             \E response \in PlayerMarketResponses(marketLoads[n].playerId) :
                /\ response.ok
                /\ Truthy(response.data)
                /\ selectedPlayer' = [id |-> response.data.playerId,
                                      username |-> response.data.playerUsername]
                /\ HasMap(JsOr(response.data.sellOrders, JArray(<<>>)))
                /\ sellOrders' =
                      parseSellOrders(JsOr(response.data.sellOrders, JArray(<<>>)).elems)
                /\ HasMap(JsOr(response.data.buyOrders, JArray(<<>>)))
                /\ buyOrders' =
                      parseBuyOrders(JsOr(response.data.buyOrders, JArray(<<>>)).elems)]_vars

\* the selected player is player 2 and the sell orders are those of player 1,
\* with no player market request in flight
OrdersOfAnotherPlayer ==
    /\ selectedPlayer # Null
    /\ selectedPlayer.id = Num(2)
    /\ sellOrders # <<>>
    /\ sellOrders[1].entityId = 11
    /\ \A n \in DOMAIN marketLoads : marketLoads[n].state # "pending"

\* a calculation started for an earlier response has flagged its orders
\* while the list of a later response was the current one
StaleRunFlagged ==
    /\ Len(cheapestRuns) = 2
    /\ cheapestRuns[1].fetched # <<>>
    /\ cheapestRuns[1].orders # <<>>
    /\ sellOrders = cheapestRuns[2].orders
    /\ sellOrders # <<>>
    /\ \A k \in DOMAIN sellOrders : sellOrders[k].isCheapest = Null

\* the step is the settling of the inventory request of batch b, and the
\* request gave a list of items
SettledIn(b) ==
    /\ batches[b].stage = "inventory"
    /\ Len(batches'[b].log) > Len(batches[b].log)
    /\ batches'[b].log[Len(batches[b].log) + 1].kind = "settled"

\* the map holds for entityId a list that an inventory request can give
HoldsFetched(playerMap, entityId, responses) ==
    /\ playersHas(playerMap, entityId)
    /\ \E decoded \in responses :
          /\ fetchPlayerInventory(decoded, itemDatabase, entityId).ok
          /\ StoredItems(playerMap, entityId) =
                fetchPlayerInventory(decoded, itemDatabase, entityId).items

\* C25: there is no cancellation. An inventory response that gives items is
\* written into the player map by addPlayer and by loadPlayersFromUrl whatever
\* the map has become since the request was sent, and removePlayer and
\* clearAll leave every request in flight awaiting
C25_NoResponseDiscarded ==
    [][/\ \A b \in DOMAIN batches :
             SettledIn(b) => HoldsFetched(players', batches[b].entityId, Responses)
       /\ \A entityId \in pending, decoded \in AddResponses :
             (/\ addPlayerResume(entityId, decoded)
              /\ fetchPlayerInventory(decoded, itemDatabase, entityId).ok)
             => /\ playersHas(players', entityId)
                /\ StoredItems(players', entityId) =
                      fetchPlayerInventory(decoded, itemDatabase, entityId).items
       /\ Len(players') < Len(players) =>
             /\ pending' = pending
             /\ \A b \in DOMAIN batches :
                   /\ batches'[b].stage = batches[b].stage
                   /\ batches'[b].log = batches[b].log]_vars

\* loadPlayersFromUrl stored its first player, the map lost that player, and
\* the response for the second player was then written into the map
C25_Witness ==
    \E b \in DOMAIN batches :
       /\ batches[b].op = "loadPlayersFromUrl"
       /\ \E i, j \in DOMAIN batches[b].log :
             /\ i < j
             /\ batches[b].log[i].kind = "settled"
             /\ batches[b].log[j].kind = "settled"
             /\ ~playersHas(players, batches[b].log[i].entityId)
             /\ playersHas(players, batches[b].log[j].entityId)

\* the step is the settling of the inventory request of batch b, and the
\* request failed: the fetch was rejected or its body did not decode
FailedIn(b) ==
    /\ batches[b].stage = "inventory"
    /\ Len(batches'[b].log) > Len(batches[b].log)
    /\ batches'[b].log[Len(batches[b].log) + 1].kind = "failed"

\* C26: when the inventory request of a player fails during refreshAll, the
\* step leaves the whole player map as it was, so the player stays with the
\* list it had, and the call goes on to the next player of the map; a request
\* that gives items replaces the list of its own player, the record still
\* being in the map, and leaves the lists of the other players
C26_RefreshFailureLeavesList ==
    [][\A b \in DOMAIN batches :
          batches[b].op = "refreshAll" =>
             /\ FailedIn(b) =>
                   /\ players' = players
                   /\ playersAfter(players, batches[b].index) # <<>> =>
                         /\ batches'[b].stage = "inventory"
                         /\ batches'[b].entityId =
                               playersAfter(players, batches[b].index)[1]
             /\ (SettledIn(b) /\ ~batches[b].detached) =>
                   /\ HoldsFetched(players', batches[b].entityId, Responses)
                   /\ \A p \in DOMAIN players :
                         players[p].entityId # batches[b].entityId =>
                            players'[p] = players[p]]_vars

\* a refreshAll call over two players has ended: the request of the first
\* failed, the request of the second gave items, and the map holds both
C26_Witness ==
    /\ Len(players) = 2
    /\ \E b \in DOMAIN batches :
          /\ batches[b].op = "refreshAll"
          /\ batches[b].stage = "done"
          /\ \E i, j \in DOMAIN batches[b].log :
                /\ i < j
                /\ batches[b].log[i].kind = "failed"
                /\ batches[b].log[i].entityId = players[1].entityId
                /\ batches[b].log[j].kind = "settled"
                /\ batches[b].log[j].entityId = players[2].entityId

\* when the inventory request of addPlayer fails, the player map is unchanged
AddFailureLeavesMap ==
    [][\A entityId \in pending, decoded \in AddResponses :
          (/\ addPlayerResume(entityId, decoded)
           /\ ~fetchPlayerInventory(decoded, itemDatabase, entityId).ok)
          => players' = players]_vars

\* the same for refreshAll: a response that gives items replaces the list of
\* the record the call holds; when that record has left the map (its player
\* was removed, the map was cleared) the map stays as it is, and the call goes
\* on to its next player or to its end either way
RefreshResponseApplied ==
    [][\A b \in DOMAIN batches :
          (batches[b].op = "refreshAll" /\ SettledIn(b)) =>
              IF batches[b].detached
              THEN players' = players
              ELSE HoldsFetched(players', batches[b].entityId, Responses)]_vars

\* a refreshAll call has ended whose request settled for a player the map
\* does not hold
RefreshOfRemovedPlayer ==
    \E b \in DOMAIN batches :
       /\ batches[b].op = "refreshAll"
       /\ batches[b].stage = "done"
       /\ \E i \in DOMAIN batches[b].log :
             /\ batches[b].log[i].kind = "settled"
             /\ ~playersHas(players, batches[b].log[i].entityId)

\* an operation that showed the loading overlay awaits a response
OperationAwaits ==
    \/ pending # {}
    \/ \E b \in DOMAIN batches : batches[b].stage # "done"

\* C29: whenever an operation that showed the loading overlay is still
\* awaiting a response the overlay is visible, and once every such operation
\* has finished the overlay is hidden
C29_OverlayWhileAwaiting == loading <=> OperationAwaits

\* the second half alone: with no operation awaiting, the overlay is hidden
OverlayHiddenWhenIdle == ~OperationAwaits => ~loading

\* the overlay is hidden, the loadPlayersFromUrl call has ended, and a
\* refreshAll call started during it still awaits a response
HiddenDuringRefresh ==
    /\ ~loading
    /\ \E a, b \in DOMAIN batches :
          /\ batches[a].op = "loadPlayersFromUrl"
          /\ batches[a].stage = "done"
          /\ batches[b].op = "refreshAll"
          /\ batches[b].stage = "inventory"

-----------------------------------------------------------------------------
(* Properties of the market view *)

RECURSIVE OutstandingFrom(_, _)
OutstandingFrom(runs, r) ==
    IF r > Len(runs) THEN 0
    ELSE Cardinality(runs[r].outstanding) + OutstandingFrom(runs, r + 1)

\* the number of price requests that await their response
OutstandingPriceRequests == OutstandingFrom(priceRuns, 1)

\* C15: at no time are more than 10 price requests outstanding, whatever
\* market-table renders the tag, search and sort events have caused
C15_AtMostTenOutstanding == OutstandingPriceRequests <= batchSize

\* the number of price requests issued so far for the item itemId
RequestsFor(counts, itemId) == IF itemId \in DOMAIN counts THEN counts[itemId] ELSE 0

\* C28: for each market item the price request is issued at most once over
\* the lifetime of the loaded market list, whatever market-table renders
\* interleave with the responses
C28_PriceRequestedAtMostOnce ==
    \A k \in 1..Len(marketItems) : RequestsFor(priceRequests, marketItems[k].id) <= 1

\* a render that starts after the price of an item has arrived issues no
\* request for that item
LoadedNotRequestedAgain ==
    [][\A k \in 1..Len(marketItems) :
          marketItems[k].priceLoaded =>
             RequestsFor(priceRequests', marketItems[k].id) =
                RequestsFor(priceRequests, marketItems[k].id)]_vars

\* two price requests were issued for one item, the second before the
\* response to the first arrived
RequestedTwiceWhileAwaited ==
    \E k \in 1..Len(marketItems) :
       /\ RequestsFor(priceRequests, marketItems[k].id) = 2
       /\ ~marketItems[k].priceLoaded
       /\ \A r \in DOMAIN priceRuns : marketItems[k].id \in priceRuns[r].outstanding

-----------------------------------------------------------------------------
(* Properties of the proxy *)

\* C16: handleRequest returns a response for every request and never throws;
\* the response carries Access-Control-Allow-Origin: *; a request that is not
\* a preflight is relayed to the upstream host with the path after /proxy/
\* and the query string; the status and body of the upstream response are
\* passed through as they are; a failed upstream fetch gives status 500 with
\* a JSON error body
C16_ProxyContract ==
    /\ proxyResponse # Null =>
          /\ ~proxyResponse.threw
          /\ proxyResponse.response.headers["Access-Control-Allow-Origin"] = "*"
    /\ (proxyRequest # Null /\ proxyRequest.method # "OPTIONS"
        /\ StartsWith(proxyRequest.pathname, sProxy)) =>
          proxyTarget = sUpstreamRoot
                        \o SubSeq(proxyRequest.pathname, Len(sProxy) + 1,
                                  Len(proxyRequest.pathname))
                        \o proxyRequest.search
    /\ (proxyUpstream # Null /\ proxyUpstream.kind = "response") =>
          /\ proxyResponse.response.status = proxyUpstream.status
          /\ proxyResponse.response.body = proxyUpstream.body
    /\ (proxyUpstream # Null /\ proxyUpstream.kind # "response") =>
          /\ proxyResponse.response.status = 500
          /\ proxyResponse.response.body = ErrorBody(proxyUpstream.message)

====
